---- MODULE Spec2Model ----
(***************************************************************************)
(* A model of the DNS forwarder: the TTL-aware LRU cache                   *)
(* (internal/cache), the local resolver (internal/resolver), the upstream  *)
(* forwarder (internal/upstream) and the request handler (internal/dns).   *)
(*                                                                         *)
(* Pointers are modelled explicitly.  A *CacheEntry and its *list.Element  *)
(* are in one-to-one correspondence and share one identity (a positive     *)
(* integer); a *dns.Msg is an index into `heap`.  container/list is        *)
(* modelled field by field (next, prev, list, len), because the cache      *)
(* calls List.Init and List.MoveToFront on elements whose state only the   *)
(* pointer structure explains.                                             *)
(***************************************************************************)
EXTENDS Integers, Sequences, FiniteSets, TLC

VARIABLES
    items,      \* LRUCache.items: key -> entry pointer
    entries,    \* the CacheEntry/list.Element objects: pointer -> fields
    evictList,  \* LRUCache.evictList: the root sentinel's next, prev and len
    heap,       \* the dns.Msg objects: pointer -> message
    status,     \* "ok", or how the process died: "panic", "hang"
    now,        \* time.Now(), in seconds
    held,       \* the message the sequential caller holds (a pointer)
    lastOp,     \* the operation that ran last, with what it returned
    stored,     \* history: key present -> the message passed to its latest set
    deadline,   \* history: key present -> expiry its latest set asked for
    recent,     \* history: the keys present, most recently accessed first
    gets,       \* SpecGoroutines: each goroutine's Get in progress
    file,       \* dns-cache.gob
    snap,       \* history: what the cache held when it was last dumped
    records,    \* LocalResolver.records
    asked,      \* the question last put to the local resolver
    reply,      \* what the local resolver returned for it
    req,        \* the request ServeDNS is serving, and how far it has got
    calls,      \* history: the components the request has consulted, in order
    written,    \* the responses written for the request
    before,     \* history: what the cache held when the request arrived
    extracted,  \* a message's answer TTLs and what extractTTL made of them
    load,       \* the configuration file read at startup and what Load made of it
    srv,        \* the server's goroutines: main, listener, drain and sweeper
    keyed       \* two questions and the cache keys GenerateCacheKey made of them

cacheVars == <<items, entries, evictList, heap, status>>
seqVars == <<held, lastOp, stored, deadline, recent>>
concVars == <<gets>>
snapVars == <<file, snap>>
resVars == <<records, asked, reply>>
hVars == <<req, calls, written, before>>
ttlVars == <<extracted>>
cfgVars == <<load>>
srvVars == <<srv>>
keyVars == <<keyed>>
\* The variables the sequential cache specifications leave alone.
outsideSeq == <<concVars, snapVars, resVars, hVars, ttlVars, cfgVars, srvVars, keyVars>>
outsideGo == <<seqVars, snapVars, resVars, hVars, ttlVars, cfgVars, srvVars, keyVars>>
outsideSnap == <<concVars, resVars, hVars, ttlVars, cfgVars, srvVars, keyVars>>
outsideRes == <<items, entries, evictList, heap, now, seqVars, concVars, snapVars, hVars,
                ttlVars, cfgVars, srvVars, keyVars>>
outsideH == <<seqVars, concVars, snapVars, resVars, ttlVars, cfgVars, srvVars, keyVars>>
outsideSrv == <<seqVars, concVars, resVars, hVars, ttlVars, cfgVars, keyVars>>
vars == <<items, entries, evictList, heap, status, now,
          held, lastOp, stored, deadline, recent, gets, file, snap, records, asked, reply,
          req, calls, written, before, extracted, load, srv, keyed>>

-----------------------------------------------------------------------------
(* Bounds and inputs *)

capacity == 2
defaultTTL == 2
MaxTime == 3
NumGoroutines == 1
\* Elements the goroutines' run may have allocated and not yet released.
MaxEntries == 3
\* Upstream servers configured, and retries after the first attempt.
NumServers == 2
retries == 1
\* The clock of the handler's runs: its step and its end, in seconds.
ElapseStep == 200
BackoffUnit == 100
MaxElapsed == 400

Keys == {"k1", "k2", "k3"}
CallerKeys == {"k1", "k2"}
GoKeys == {"k1", "k2"}
\* A ttl of 0 asks for the default TTL.
TTLs == {0, 1}
GoTTLs == {1}
MsgIds == {1, 2}

NilPtr == -1
RootPtr == 0

RcodeSuccess == 0
RcodeFormatError == 1
RcodeServerFailure == 2
RcodeNameError == 3
RcodeNotImplemented == 4
RcodeRefused == 5

ClassINET == 1

TypeA == 1
TypeCNAME == 5
TypeMX == 15
TypeTXT == 16
TypeAAAA == 28
TypeSRV == 33
TypeMAILA == 254

\* The TTL of every record the local resolver builds.
LocalTTL == 300

EmptyFn == [x \in {} |-> x]

Range(f) == {f[x] : x \in DOMAIN f}

MapDelete(m, k) == [x \in DOMAIN m \ {k} |-> m[x]]

-----------------------------------------------------------------------------
(* dns.Msg and dns.RR values *)

RR(name, rrtype, ttl, data) ==
    [Name |-> name, Rrtype |-> rrtype, Class |-> ClassINET, Ttl |-> ttl,
     Data |-> data]

NewMsg(id, question, rcode, answer) ==
    [Id |-> id, Response |-> TRUE, Authoritative |-> FALSE,
     RecursionAvailable |-> TRUE, Rcode |-> rcode,
     Question |-> question, Answer |-> answer]

Question(name, qtype, qclass) == [Name |-> name, Qtype |-> qtype, Qclass |-> qclass]

\* The messages the cache specifications store: one carrying an answer
\* record and one (a name error) carrying none.
SampleQuestion == Question(<<"a", ".">>, TypeA, ClassINET)
SampleMsgs ==
    {NewMsg(1, <<SampleQuestion>>, RcodeSuccess,
            <<RR(<<"a", ".">>, TypeA, 5, "10.0.0.1")>>),
     NewMsg(1, <<SampleQuestion>>, RcodeNameError, <<>>)}

GoMsgs == {NewMsg(1, <<SampleQuestion>>, RcodeNameError, <<>>)}

-----------------------------------------------------------------------------
(* The world the cache operates on, as one value *)

World == [items |-> items, entries |-> entries, evictList |-> evictList,
          heap |-> heap, status |-> status]

MinFree(used) ==
    CHOOSE p \in 1..(Cardinality(used) + 1) :
        p \notin used /\ \A q \in 1..(p - 1) : q \in used

\* dns.Msg.Copy: a deep copy in a new object.
MsgCopy(w, p) ==
    LET q == MinFree(DOMAIN w.heap)
    IN  [w |-> [w EXCEPT !.heap = (q :> w.heap[p]) @@ @], p |-> q]

MsgNew(w, m) ==
    LET q == MinFree(DOMAIN w.heap)
    IN  [w |-> [w EXCEPT !.heap = (q :> m) @@ w.heap], p |-> q]

-----------------------------------------------------------------------------
(* container/list *)

NodeNext(w, n) ==
    IF n = RootPtr THEN w.evictList.next
    ELSE IF n \in DOMAIN w.entries THEN w.entries[n].next ELSE NilPtr

NodePrev(w, n) ==
    IF n = RootPtr THEN w.evictList.prev
    ELSE IF n \in DOMAIN w.entries THEN w.entries[n].prev ELSE NilPtr

SetNodeNext(w, n, v) ==
    IF n = RootPtr THEN [w EXCEPT !.evictList.next = v]
    ELSE IF n \in DOMAIN w.entries THEN [w EXCEPT !.entries[n].next = v]
    ELSE [w EXCEPT !.status = "panic"]

SetNodePrev(w, n, v) ==
    IF n = RootPtr THEN [w EXCEPT !.evictList.prev = v]
    ELSE IF n \in DOMAIN w.entries THEN [w EXCEPT !.entries[n].prev = v]
    ELSE [w EXCEPT !.status = "panic"]

\* List.insert(e, at)
listInsert(w, e, at) ==
    LET w1 == SetNodePrev(w, e, at)
        w2 == SetNodeNext(w1, e, NodeNext(w1, at))
        w3 == SetNodeNext(w2, NodePrev(w2, e), e)
        w4 == SetNodePrev(w3, NodeNext(w3, e), e)
    IN  [w4 EXCEPT !.entries[e].list = TRUE, !.evictList.len = @ + 1]

\* List.remove(e)
listRemove(w, e) ==
    LET w1 == SetNodeNext(w, NodePrev(w, e), NodeNext(w, e))
        w2 == SetNodePrev(w1, NodeNext(w1, e), NodePrev(w1, e))
    IN  [w2 EXCEPT !.entries[e].next = NilPtr, !.entries[e].prev = NilPtr,
                   !.entries[e].list = FALSE, !.evictList.len = @ - 1]

\* List.move(e, at)
listMove(w, e, at) ==
    IF e = at THEN w
    ELSE
        LET w1 == SetNodeNext(w, NodePrev(w, e), NodeNext(w, e))
            w2 == SetNodePrev(w1, NodeNext(w1, e), NodePrev(w1, e))
            w3 == SetNodePrev(w2, e, at)
            w4 == SetNodeNext(w3, e, NodeNext(w3, at))
            w5 == SetNodeNext(w4, NodePrev(w4, e), e)
        IN  SetNodePrev(w5, NodeNext(w5, e), e)

\* List.Init: resets the sentinel and the length; the elements that were in
\* the list keep their next, prev and list fields.
ListInit(w) ==
    [w EXCEPT !.evictList = [next |-> RootPtr, prev |-> RootPtr, len |-> 0]]

ListLen(w) == w.evictList.len

ListFront(w) == IF w.evictList.len = 0 THEN NilPtr ELSE w.evictList.next

ListBack(w) == IF w.evictList.len = 0 THEN NilPtr ELSE w.evictList.prev

\* Element.Prev / Element.Next
ElemPrev(w, e) ==
    LET p == w.entries[e].prev
    IN  IF w.entries[e].list /\ p # RootPtr THEN p ELSE NilPtr

ElemNext(w, e) ==
    LET p == w.entries[e].next
    IN  IF w.entries[e].list /\ p # RootPtr THEN p ELSE NilPtr

ListPushFront(w, e) == listInsert(w, e, RootPtr)

ListRemove(w, e) == IF w.entries[e].list THEN listRemove(w, e) ELSE w

ListMoveToFront(w, e) ==
    IF ~w.entries[e].list \/ w.evictList.next = e THEN w
    ELSE listMove(w, e, RootPtr)

-----------------------------------------------------------------------------
(* LRUCache *)

NewEntry(key, response, expiresAt) ==
    [Key |-> key, Response |-> response, ExpiresAt |-> expiresAt,
     next |-> NilPtr, prev |-> NilPtr, list |-> FALSE]

\* (mutant) Before in place of After.
ExpiredBefore(w, e, t) == t < w.entries[e].ExpiresAt

\* time.Now().After(entry.ExpiresAt)
Expired(w, e, t) == t > w.entries[e].ExpiresAt

\* LRUCache.Delete
LRUDelete(w, key) ==
    IF key \in DOMAIN w.items
    THEN LET w1 == ListRemove(w, w.items[key])
         IN  [w1 EXCEPT !.items = MapDelete(@, key)]
    ELSE w

\* (mutant) removeOldest taking the front of the list.
removeNewest(w) ==
    LET element == ListFront(w)
    IN  IF element = NilPtr THEN w
        ELSE IF element = RootPtr THEN [w EXCEPT !.status = "panic"]
        ELSE LET w1 == ListRemove(w, element)
             IN  [w1 EXCEPT !.items = MapDelete(@, w.entries[element].Key)]

\* LRUCache.removeOldest.  Back() of a list whose length is not zero is
\* root.prev, whatever it points to; the sentinel's Value is nil and the type
\* assertion on it panics.
removeOldest(w) ==
    LET element == ListBack(w)
    IN  IF element = NilPtr THEN w
        ELSE IF element = RootPtr THEN [w EXCEPT !.status = "panic"]
        ELSE LET w1 == ListRemove(w, element)
             IN  [w1 EXCEPT !.items = MapDelete(@, w.entries[element].Key)]

\* (mutant) SetNewKey evicting only once the list is over capacity.
SetNewKeyOverCapacity(w, key, response, expiresAt) ==
    LET w1 == IF ListLen(w) > capacity THEN removeOldest(w) ELSE w
    IN  IF w1.status # "ok" THEN w1
        ELSE
            LET c == MsgCopy(w1, response)
                e == MinFree(DOMAIN c.w.entries)
                w2 == [c.w EXCEPT !.entries =
                           (e :> NewEntry(key, c.p, expiresAt)) @@ @]
                w3 == ListPushFront(w2, e)
            IN  [w3 EXCEPT !.items = (key :> e) @@ @]

\* LRUCache.Set, the part that stores a key not yet in the map.
SetNewKey(w, key, response, expiresAt) ==
    LET w1 == IF ListLen(w) >= capacity THEN removeOldest(w) ELSE w
    IN  IF w1.status # "ok" THEN w1
        ELSE
            LET c == MsgCopy(w1, response)
                e == MinFree(DOMAIN c.w.entries)
                w2 == [c.w EXCEPT !.entries =
                           (e :> NewEntry(key, c.p, expiresAt)) @@ @]
                w3 == ListPushFront(w2, e)
            IN  [w3 EXCEPT !.items = (key :> e) @@ @]

\* LRUCache.Set, the part that replaces the entry of a key in the map.
SetExistingKey(w, key, response, expiresAt) ==
    LET e == w.items[key]
        c == MsgCopy(w, response)
        w1 == [c.w EXCEPT !.entries[e].Response = c.p,
                          !.entries[e].ExpiresAt = expiresAt]
    IN  ListMoveToFront(w1, e)

EffectiveTTL(ttl) == IF ttl = 0 THEN defaultTTL ELSE ttl

\* LRUCache.Set
LRUSet(w, key, response, ttl, t) ==
    IF key \in DOMAIN w.items
    THEN SetExistingKey(w, key, response, t + EffectiveTTL(ttl))
    ELSE SetNewKey(w, key, response, t + EffectiveTTL(ttl))

\* LRUCache.Clear
LRUClear(w) == ListInit([w EXCEPT !.items = EmptyFn])

\* LRUCache.Size
LRUSize(w) == Cardinality(DOMAIN w.items)

\* LRUCache.Get, its last two steps for an entry found and not expired.
GetTouch(w, e) == ListMoveToFront(w, e)

\* (mutant) Get handing out the stored message itself.
GetNoCopy(w, e) == [w |-> w, p |-> w.entries[e].Response]

GetCopy(w, e) == MsgCopy(w, w.entries[e].Response)

\* LRUCache.Get run without interruption: [w, found, p].
LRUGet(w, key, t) ==
    IF key \notin DOMAIN w.items
    THEN [w |-> w, found |-> FALSE, p |-> NilPtr]
    ELSE LET e == w.items[key]
         IN  IF Expired(w, e, t)
             THEN [w |-> LRUDelete(w, key), found |-> FALSE, p |-> NilPtr]
             ELSE LET c == GetCopy(GetTouch(w, e), e)
                  IN  [w |-> c.w, found |-> TRUE, p |-> c.p]

\* LRUCache.removeExpired, first loop: the expired elements met walking from
\* Back() along Prev(), with how the walk ends.
\* (mutant) the walk stops at the first element that has not expired.
RECURSIVE expiredUntilLive(_, _, _, _)
expiredUntilLive(w, element, t, seen) ==
    IF element = NilPtr THEN [elems |-> <<>>, status |-> "ok"]
    ELSE IF element = RootPtr THEN [elems |-> <<>>, status |-> "panic"]
    ELSE IF element \in seen THEN [elems |-> <<>>, status |-> "hang"]
    ELSE IF ~Expired(w, element, t) THEN [elems |-> <<>>, status |-> "ok"]
    ELSE LET rest == expiredUntilLive(w, ElemPrev(w, element), t, seen \cup {element})
         IN  [elems |-> <<element>> \o rest.elems, status |-> rest.status]

RECURSIVE expiredFrom(_, _, _, _)
expiredFrom(w, element, t, seen) ==
    IF element = NilPtr THEN [elems |-> <<>>, status |-> "ok"]
    ELSE IF element = RootPtr THEN [elems |-> <<>>, status |-> "panic"]
    ELSE IF element \in seen THEN [elems |-> <<>>, status |-> "hang"]
    ELSE LET rest == expiredFrom(w, ElemPrev(w, element), t, seen \cup {element})
         IN  [elems |-> IF Expired(w, element, t)
                        THEN <<element>> \o rest.elems ELSE rest.elems,
              status |-> rest.status]

\* LRUCache.removeExpired, second loop.
RECURSIVE removeAll(_, _)
removeAll(w, toRemove) ==
    IF toRemove = <<>> THEN w
    ELSE LET element == Head(toRemove)
             w1 == ListRemove(w, element)
         IN  removeAll([w1 EXCEPT !.items = MapDelete(@, w.entries[element].Key)],
                       Tail(toRemove))

\* LRUCache.removeExpired
removeExpired(w, t) ==
    LET found == expiredFrom(w, ListBack(w), t, {})
    IN  IF found.status # "ok" THEN [w EXCEPT !.status = found.status]
        ELSE removeAll(w, found.elems)

-----------------------------------------------------------------------------
(* What the list holds, as a traversal sees it *)

RECURSIVE walkNext(_, _, _)
walkNext(w, e, seen) ==
    IF e = NilPtr \/ e = RootPtr \/ e \in seen \/ e \notin DOMAIN w.entries
    THEN <<>>
    ELSE <<e>> \o walkNext(w, ElemNext(w, e), seen \cup {e})

RECURSIVE walkPrev(_, _, _)
walkPrev(w, e, seen) ==
    IF e = NilPtr \/ e = RootPtr \/ e \in seen \/ e \notin DOMAIN w.entries
    THEN <<>>
    ELSE <<e>> \o walkPrev(w, ElemPrev(w, e), seen \cup {e})

\* The elements from Front() along Next(), and from Back() along Prev().
ListElems(w) == walkNext(w, ListFront(w), {})
ListElemsBack(w) == walkPrev(w, ListBack(w), {})

ListKeys(w) == [i \in 1..Len(ListElems(w)) |-> w.entries[ListElems(w)[i]].Key]

SeqSet(s) == {s[i] : i \in 1..Len(s)}

-----------------------------------------------------------------------------
(* Garbage collection and pointer naming.  Objects no pointer leads to are  *)
(* dropped and the live ones renumbered in an order read off the structure, *)
(* so that two states that differ only in the numbers standing for the      *)
(* pointers are one state.                                                  *)

RECURSIVE reach(_, _)
reach(w, from) ==
    LET live == from \cap DOMAIN w.entries
        more == live \cup {w.entries[e].next : e \in live}
                     \cup {w.entries[e].prev : e \in live}
        next == more \cap DOMAIN w.entries
    IN  IF next = live THEN live ELSE reach(w, next)

RECURSIVE physWalk(_, _, _)
physWalk(w, e, seen) ==
    IF e \notin DOMAIN w.entries \/ e \in seen THEN <<>>
    ELSE <<e>> \o physWalk(w, w.entries[e].next, seen \cup {e})

RECURSIVE Ascending(_)
Ascending(S) ==
    IF S = {} THEN <<>>
    ELSE LET m == CHOOSE x \in S : \A y \in S : x <= y
         IN  <<m>> \o Ascending(S \ {m})

RECURSIVE Dedup(_, _)
Dedup(s, seen) ==
    IF s = <<>> THEN <<>>
    ELSE IF Head(s) \in seen THEN Dedup(Tail(s), seen)
    ELSE <<Head(s)>> \o Dedup(Tail(s), seen \cup {Head(s)})

IndexOf(s, x) == CHOOSE i \in 1..Len(s) : s[i] = x

\* [w, e, m]: the collected world and the renaming of the entry and message
\* pointers, under which the caller renames the pointers it holds itself.
Collect(w, entryRoots, msgRoots) ==
    LET liveE == reach(w, Range(w.items) \cup SeqSet(entryRoots)
                          \cup {w.evictList.next, w.evictList.prev})
        chain == physWalk(w, w.evictList.next, {})
        orderE == chain \o Ascending(liveE \ SeqSet(chain))
        renE(e) == IF e \in liveE THEN IndexOf(orderE, e) ELSE e
        seqM == Dedup(SelectSeq(msgRoots, LAMBDA p : p \in DOMAIN w.heap)
                      \o [i \in 1..Len(orderE) |-> w.entries[orderE[i]].Response],
                      {})
        orderM == SelectSeq(seqM, LAMBDA p : p \in DOMAIN w.heap)
        renM(p) == IF p \in SeqSet(orderM) THEN IndexOf(orderM, p) ELSE p
    IN  [w |-> [items |-> [k \in DOMAIN w.items |-> renE(w.items[k])],
                entries |-> [i \in 1..Len(orderE) |->
                                [w.entries[orderE[i]] EXCEPT
                                    !.next = renE(@), !.prev = renE(@),
                                    !.Response = renM(@)]],
                evictList |-> [w.evictList EXCEPT !.next = renE(@), !.prev = renE(@)],
                heap |-> [i \in 1..Len(orderM) |-> w.heap[orderM[i]]],
                status |-> w.status],
         e |-> [x \in liveE \cup {NilPtr, RootPtr} |-> renE(x)],
         m |-> [x \in SeqSet(orderM) \cup {NilPtr} |-> renM(x)]]

SetWorld(w) ==
    /\ items' = w.items
    /\ entries' = w.entries
    /\ evictList' = w.evictList
    /\ heap' = w.heap
    /\ status' = w.status

EmptyList == [next |-> RootPtr, prev |-> RootPtr, len |-> 0]

\* NewLRUCache
InitCache ==
    /\ items = EmptyFn
    /\ entries = <<>>
    /\ evictList = EmptyList
    /\ heap = <<>>
    /\ status = "ok"

-----------------------------------------------------------------------------
(* Names.  A name is the sequence of its characters, so that trimming,      *)
(* lowering, splitting and joining are what the strings package does.       *)

Dot == <<".">>

\* strings.ToLower, on the letters the names here are written in.
Lower(c) ==
    IF c = "A" THEN "a" ELSE IF c = "B" THEN "b" ELSE IF c = "C" THEN "c" ELSE c

ToLower(s) == [i \in 1..Len(s) |-> Lower(s[i])]

\* strings.HasSuffix(s, ".")
HasSuffixDot(s) == Len(s) > 0 /\ s[Len(s)] = "."

\* (mutant) the trailing dot kept.
TrimNothing(s) == s

\* strings.TrimSuffix(s, ".")
TrimSuffix(s) == IF HasSuffixDot(s) THEN SubSeq(s, 1, Len(s) - 1) ELSE s

\* strings.Split(s, ".")
RECURSIVE Split(_)
Split(s) ==
    IF \A i \in 1..Len(s) : s[i] # "." THEN <<s>>
    ELSE LET i == CHOOSE i \in 1..Len(s) :
                      s[i] = "." /\ \A j \in 1..(i - 1) : s[j] # "."
         IN  <<SubSeq(s, 1, i - 1)>> \o Split(SubSeq(s, i + 1, Len(s)))

\* strings.Join(parts, ".")
RECURSIVE Join(_)
Join(parts) ==
    IF parts = <<>> THEN <<>>
    ELSE IF Len(parts) = 1 THEN parts[1]
    ELSE parts[1] \o Dot \o Join(Tail(parts))

\* "*." + strings.Join(parts[i+1:], "."), i counted from 0
WildcardAt(parts, i) == <<"*", ".">> \o Join(SubSeq(parts, i + 2, Len(parts)))

-----------------------------------------------------------------------------
(* LocalResolver *)

\* Values of the A and AAAA tables: the text of an IPv4 address, of an IPv6
\* address, or of neither.
IPv4(n) == [form |-> "v4", addr |-> n]
IPv6(n) == [form |-> "v6", addr |-> n]
NilIP == [form |-> "nil", addr |-> 0]

\* net.ParseIP, IP.To4 and IP.To16
ParseIP(s) == IF s.form \in {"v4", "v6"} THEN s ELSE NilIP
To4(ip) == IF ip.form = "v4" THEN ip ELSE NilIP
To16(ip) ==
    IF ip.form = "v4" THEN [form |-> "v4in6", addr |-> ip.addr]
    ELSE IF ip.form = "v6" THEN ip ELSE NilIP

\* config.RecordsConfig; of the tables looked up by the name alone (HTTPS,
\* CAA, SRV, SVCB, DS, DNSKEY, URI, NAPTR, SSHFP, TLSA, SMIMEA, CERT) SRV
\* stands for all.
NoRecords ==
    [loaded |-> FALSE, A |-> EmptyFn, AAAA |-> EmptyFn, CNAME |-> EmptyFn,
     MX |-> EmptyFn, TXT |-> EmptyFn, SRV |-> EmptyFn]

NoQuestion == Question(<<>>, 0, 0)

NotFound == [found |-> FALSE, msg |-> NewMsg(0, <<>>, RcodeSuccess, <<>>), status |-> "ok"]

StackOverflow == [NotFound EXCEPT !.status = "stack overflow"]

\* The target of a CNAME or MX record, a dot appended when it has none.
WithDot(target) == IF HasSuffixDot(target) THEN target ELSE target \o Dot

NoRR == [found |-> FALSE, rr |-> RR(<<>>, 0, 0, <<>>)]

FoundRR(question, data) ==
    [found |-> TRUE, rr |-> RR(question.Name, question.Qtype, LocalTTL, data)]

\* Resolve, the switch on question.Qtype: the record built, if any.
LocalRR(rec, domain, question) ==
    CASE question.Qtype = TypeA ->
            IF domain \in DOMAIN rec.A /\ ParseIP(rec.A[domain]) # NilIP
                                       /\ To4(ParseIP(rec.A[domain])) # NilIP
            THEN FoundRR(question, [A |-> To4(ParseIP(rec.A[domain]))])
            ELSE NoRR
      [] question.Qtype = TypeAAAA ->
            IF domain \in DOMAIN rec.AAAA /\ ParseIP(rec.AAAA[domain]) # NilIP
                                          /\ To16(ParseIP(rec.AAAA[domain])) # NilIP
            THEN FoundRR(question, [AAAA |-> To16(ParseIP(rec.AAAA[domain]))])
            ELSE NoRR
      [] question.Qtype = TypeCNAME ->
            IF domain \in DOMAIN rec.CNAME
            THEN FoundRR(question, [Target |-> WithDot(rec.CNAME[domain])])
            ELSE NoRR
      [] question.Qtype = TypeMX ->
            IF domain \in DOMAIN rec.MX
            THEN FoundRR(question, [Preference |-> rec.MX[domain].Priority % 65536,
                                    Mx |-> WithDot(rec.MX[domain].Target)])
            ELSE NoRR
      [] question.Qtype = TypeTXT ->
            IF domain \in DOMAIN rec.TXT
            THEN FoundRR(question, [Txt |-> <<rec.TXT[domain]>>])
            ELSE NoRR
      [] question.Qtype = TypeSRV ->
            IF domain \in DOMAIN rec.SRV
            THEN FoundRR(question, [Priority |-> rec.SRV[domain].Priority % 65536,
                                    Weight |-> rec.SRV[domain].Weight % 65536,
                                    Port |-> rec.SRV[domain].Port % 65536,
                                    Target |-> rec.SRV[domain].Target])
            ELSE NoRR
      [] OTHER -> NoRR

\* LocalResolver.hasWildcardMatch
hasWildcardMatch(rec, domain, qtype) ==
    LET parts == Split(domain)
    IN  \E i \in 0..(Len(parts) - 1) :
            LET wildcard == WildcardAt(parts, i)
            IN  CASE qtype = TypeA -> wildcard \in DOMAIN rec.A
                  [] qtype = TypeAAAA -> wildcard \in DOMAIN rec.AAAA
                  [] qtype = TypeCNAME -> wildcard \in DOMAIN rec.CNAME
                  [] qtype = TypeMX -> wildcard \in DOMAIN rec.MX
                  [] qtype = TypeTXT -> wildcard \in DOMAIN rec.TXT
                  [] OTHER -> FALSE

\* The reply Resolve starts from: SetReply of a message holding the
\* question, AA set and RA cleared.
LocalReply(question) ==
    [NewMsg(0, <<question>>, RcodeSuccess, <<>>) EXCEPT
        !.Authoritative = TRUE, !.RecursionAvailable = FALSE]

\* LocalResolver.Resolve and LocalResolver.resolveWildcard (its loop from the
\* i-th part on): [found, msg, status].  `calling` holds the questions of
\* the calls of Resolve that are on the stack; Resolve called with one of
\* them calls itself with it again, without end, until the stack is used up.
\* The one element of a set of one: what a local variable of the code holds.
Only(S) == CHOOSE x \in S : TRUE

RECURSIVE Resolve(_, _, _)
RECURSIVE resolveWildcard(_, _, _, _, _)
Resolve(rec, question, calling) ==
    IF question \in calling THEN StackOverflow
    ELSE
        Only({Only({
            IF x.found
            THEN [found |-> TRUE,
                  msg |-> [LocalReply(question) EXCEPT
                              !.Answer = <<x.rr>>, !.Rcode = RcodeSuccess],
                  status |-> "ok"]
            ELSE IF hasWildcardMatch(rec, domain, question.Qtype)
            THEN Only({resolveWildcard(rec, parts, 0, question, inner) :
                          parts \in {Split(domain)},
                          inner \in {calling \cup {question}}})
            ELSE NotFound
          : x \in {LocalRR(rec, domain, question)}})
          : domain \in {ToLower(TrimSuffix(question.Name))}})

resolveWildcard(rec, parts, i, question, calling) ==
    IF i >= Len(parts) THEN NotFound
    ELSE
        Only({Only({
            IF r.status # "ok" THEN r
            ELSE IF r.found
            THEN [r EXCEPT !.msg.Answer =
                     [j \in DOMAIN @ |-> [@[j] EXCEPT !.Name = question.Name]]]
            ELSE resolveWildcard(rec, parts, i + 1, question, calling)
          : r \in {Resolve(rec, wildcardQuestion, calling)}})
          : wildcardQuestion \in
                {Question(WildcardAt(parts, i) \o Dot, question.Qtype, question.Qclass)}})

-----------------------------------------------------------------------------
(* config: the TOML file and TOMLConfigLoader *)

\* An option of the file: written with a value, or left out.
Opt(v) == <<v>>
Omitted == <<>>

\* toml.DecodeFile for one field: the value written, or the field's zero
\* value, which Config{} starts with.
Decode(option, zero) == IF option = Omitted THEN zero ELSE option[1]

\* A string in place of an address that is none.
NotIP == [form |-> "text", addr |-> 0]

MaxPort == 65535
MaxPriority == 65535
MaxDomainLen == 253
MaxLabelLen == 63
DefaultPort == 53
DefaultMaxEntries == 10000
DefaultRetries == 3
DefaultServers == <<"8.8.8.8:53", "1.1.1.1:53">>
DefaultBindAddress == "0.0.0.0"

\* Config{}: the fields of the model, all zero.
ZeroConfig ==
    [Port |-> 0, BindAddress |-> "", MaxEntries |-> 0, Servers |-> <<>>,
     Retries |-> 0,
     Records |-> [A |-> EmptyFn, AAAA |-> EmptyFn, CNAME |-> EmptyFn, MX |-> EmptyFn]]

\* TOMLConfigLoader.defaultConfig
defaultConfig ==
    [ZeroConfig EXCEPT !.Port = DefaultPort, !.BindAddress = DefaultBindAddress,
                       !.MaxEntries = DefaultMaxEntries, !.Servers = DefaultServers,
                       !.Retries = DefaultRetries]

\* toml.DecodeFile into Config{}
DecodeFile(path) ==
    [Port |-> Decode(path.port, 0),
     BindAddress |-> Decode(path.bind_address, ""),
     MaxEntries |-> Decode(path.max_entries, 0),
     Servers |-> Decode(path.servers, <<>>),
     Retries |-> Decode(path.retries, 0),
     Records |-> path.records]

\* TOMLConfigLoader.isValidDomain
isValidDomain(domain) ==
    IF Len(domain) = 0 \/ Len(domain) > MaxDomainLen THEN FALSE
    ELSE \E parts \in {Split(TrimSuffix(WithDot(domain)))} :
             \A k \in DOMAIN parts :
                 ~(Len(parts[k]) = 0 \/ Len(parts[k]) > MaxLabelLen)

\* TOMLConfigLoader.validateRecords: TRUE when it returns no error.
validateRecords(config) ==
    /\ \A domain \in DOMAIN config.Records.A :
           /\ isValidDomain(domain)
           /\ ParseIP(config.Records.A[domain]) # NilIP
    /\ \A domain \in DOMAIN config.Records.AAAA :
           /\ isValidDomain(domain)
           /\ ParseIP(config.Records.AAAA[domain]) # NilIP
    /\ \A domain \in DOMAIN config.Records.CNAME :
           /\ isValidDomain(domain)
           /\ isValidDomain(config.Records.CNAME[domain])
    /\ \A domain \in DOMAIN config.Records.MX :
           /\ isValidDomain(domain)
           /\ isValidDomain(config.Records.MX[domain].Target)
           /\ ~(config.Records.MX[domain].Priority < 0
                \/ config.Records.MX[domain].Priority > MaxPriority)

\* TOMLConfigLoader.validate: the error it returns, "" for nil.
validate(config) ==
    IF config.Port < 1 \/ config.Port > MaxPort THEN "invalid server port"
    ELSE IF config.MaxEntries < 1 THEN "cache max_entries must be positive"
    ELSE IF Len(config.Servers) = 0
    THEN "at least one upstream server must be configured"
    ELSE IF config.Retries < 0 THEN "upstream retries must be non-negative"
    ELSE IF ~validateRecords(config) THEN "invalid records configuration"
    ELSE ""

\* TOMLConfigLoader.setDefaults
setDefaults(config) ==
    [config EXCEPT
        !.Port = IF @ = 0 THEN DefaultPort ELSE @,
        !.BindAddress = IF @ = "" THEN DefaultBindAddress ELSE @,
        !.MaxEntries = IF @ = 0 THEN DefaultMaxEntries ELSE @,
        !.Servers = IF Len(@) = 0 THEN DefaultServers ELSE @,
        !.Retries = IF @ = 0 THEN DefaultRetries ELSE @]

\* TOMLConfigLoader.Load: [err, config]; config is nil when err is not "".
Load(path) ==
    IF ~path.exists THEN [err |-> "", config |-> defaultConfig]
    ELSE IF ~path.decodable
    THEN [err |-> "failed to decode config file", config |-> ZeroConfig]
    ELSE LET config == DecodeFile(path)
         IN  IF validate(config) # ""
             THEN [err |-> "invalid configuration", config |-> ZeroConfig]
             ELSE [err |-> "", config |-> setDefaults(config)]

\* Before main has called Load.
NotLoaded ==
    [done |-> FALSE,
     file |-> [exists |-> FALSE, decodable |-> FALSE, port |-> Omitted,
               bind_address |-> Omitted, max_entries |-> Omitted,
               servers |-> Omitted, retries |-> Omitted,
               records |-> ZeroConfig.Records],
     err |-> "", config |-> ZeroConfig]

-----------------------------------------------------------------------------
(* Spec: one caller running cache operations one after another, with the    *)
(* sweeper's runs and the clock in between.                                 *)

\* hadKey, wasFull and late describe the cache the operation started on:
\* whether it held the key, whether it was full, and whether the key's
\* latest set had expired.
NoOp == [op |-> "none", key |-> "", found |-> FALSE, ret |-> <<>>,
         size |-> 0, hadKey |-> FALSE, wasFull |-> FALSE, late |-> FALSE,
         removed |-> 0]

OpOn(op, key) ==
    [NoOp EXCEPT !.op = op, !.key = key, !.hadKey = key \in DOMAIN items,
                 !.wasFull = Cardinality(DOMAIN items) >= capacity,
                 !.late = key \in DOMAIN deadline /\ now > deadline[key]]

SeqWithout(s, k) == SelectSeq(s, LAMBDA x : x # k)

Present(order, present) == SelectSeq(order, LAMBDA x : x \in present)

\* The access order after key k was accessed, among the keys still present.
Accessed(order, k, present) == Present(<<k>> \o SeqWithout(order, k), present)

Restrict(f, S) == [x \in DOMAIN f \cap S |-> f[x]]

Goroutines == 1..NumGoroutines

\* No request being served, none served before.  Of a request, besides where
\* ServeDNS and the forwarder's loop stand: how many exchanges with upstream
\* servers it has made, whether each ended in an error or an rcode other than
\* NOERROR and NXDOMAIN, what answered it, when it arrived, and the same of
\* the request before it.
NoRequest == [Id |-> 0, Question |-> <<>>]

\* No cache key computed yet.
NoKeys == [first |-> NoQuestion, second |-> NoQuestion, keys |-> <<>>]

\* NewServer has returned and main is in Start: the sweeper goroutine has
\* been running since NewLRUCache, the listener and the drain goroutine
\* have been started, nothing is cancelled.
NewServer ==
    [main |-> "start", listener |-> "starting", drain |-> "waiting",
     sweeper |-> "select", tick |-> FALSE, stopCleanup |-> FALSE,
     cancelled |-> FALSE, dumps |-> 0]

\* error values of UpstreamResolver.Resolve: lastErr, and what it returns
NoErr == [kind |-> "nil", server |-> 0, rcode |-> 0]
NoReturn == [kind |-> "nil", attempts |-> 0, wraps |-> NoErr]

\* history: no exchange yet
NoExchange == [server |-> 0, err |-> FALSE, rcode |-> 0]

IdleReq ==
    [pc |-> "idle", r |-> NoRequest, attempt |-> 0, server |-> 1,
     lastErr |-> NoErr, err |-> NoReturn, slept |-> <<>>, last |-> NoExchange,
     exchanges |-> 0, allBad |-> TRUE,
     ctxDone |-> FALSE, source |-> "none", at |-> 0,
     prev |-> [question |-> NoQuestion, source |-> "none", at |-> 0, ttl |-> 0]]

\* dns-cache.gob before the first dump: os.Open fails.
NoFile == [exists |-> FALSE, decodable |-> FALSE, entries |-> <<>>]

\* A goroutine's Get: where it stands, its key and its entry variable.
Idle == [pc |-> "idle", key |-> "", entry |-> NilPtr]

Init ==
    /\ InitCache
    /\ now = 0
    /\ held = NilPtr
    /\ lastOp = NoOp
    /\ stored = EmptyFn
    /\ deadline = EmptyFn
    /\ recent = <<>>
    /\ gets = [t \in Goroutines |-> Idle]
    /\ file = NoFile
    /\ snap = EmptyFn
    /\ records = NoRecords
    /\ asked = NoQuestion
    /\ reply = NotFound
    /\ req = IdleReq
    /\ calls = <<>>
    /\ written = <<>>
    /\ before = EmptyFn
    /\ extracted = [answers |-> <<>>, ttl |-> 300]
    /\ load = NotLoaded
    /\ srv = NewServer
    /\ keyed = NoKeys

\* The history variables follow an operation that left the keys `present`.
Forget(present) ==
    /\ stored' = Restrict(stored, present)
    /\ deadline' = Restrict(deadline, present)
    /\ recent' = Present(recent, present)

\* The caller of DoSet and DoGet either keeps the message it passed in or
\* was handed (keep) or drops it at once.
DoSet(key, m, ttl, keep) ==
    /\ status = "ok"
    /\ \E v \in {MsgNew(World, m)} :
       \E w \in {LRUSet(v.w, key, v.p, ttl, now)} :
       \E c \in {Collect(w, <<>>, IF keep THEN <<v.p>> ELSE <<>>)} :
           /\ SetWorld(c.w)
           /\ held' = IF keep THEN c.m[v.p] ELSE NilPtr
           /\ recent' = Accessed(recent, key, DOMAIN w.items)
           /\ stored' = Restrict((key :> m) @@ stored, DOMAIN w.items)
           /\ deadline' = Restrict((key :> now + (IF ttl = 0 THEN defaultTTL ELSE ttl))
                                       @@ deadline, DOMAIN w.items)
    /\ lastOp' = OpOn("set", key)
    /\ UNCHANGED <<now, outsideSeq>>

DoGet(key, keep) ==
    /\ status = "ok"
    /\ \E r \in {LRUGet(World, key, now)} :
       \E h \in {IF ~r.found THEN held ELSE IF keep THEN r.p ELSE NilPtr} :
       \E c \in {Collect(r.w, <<>>, <<h>>)} :
           /\ SetWorld(c.w)
           /\ held' = c.m[h]
           /\ recent' = IF r.found THEN Accessed(recent, key, DOMAIN r.w.items)
                        ELSE Present(recent, DOMAIN r.w.items)
           /\ stored' = Restrict(stored, DOMAIN r.w.items)
           /\ deadline' = Restrict(deadline, DOMAIN r.w.items)
           /\ lastOp' = [OpOn("get", key) EXCEPT
                            !.found = r.found,
                            !.ret = IF r.found THEN <<r.w.heap[r.p]>> ELSE <<>>]
    /\ UNCHANGED <<now, outsideSeq>>

DoDelete(key) ==
    /\ status = "ok"
    /\ \E w \in {LRUDelete(World, key)} :
       \E c \in {Collect(w, <<>>, <<held>>)} :
           /\ SetWorld(c.w)
           /\ held' = c.m[held]
           /\ Forget(DOMAIN w.items)
    /\ lastOp' = OpOn("delete", key)
    /\ UNCHANGED <<now, outsideSeq>>

DoClear ==
    /\ status = "ok"
    /\ \E w \in {LRUClear(World)} :
       \E c \in {Collect(w, <<>>, <<held>>)} :
           /\ SetWorld(c.w)
           /\ held' = c.m[held]
           /\ Forget(DOMAIN w.items)
    /\ lastOp' = OpOn("clear", "")
    /\ UNCHANGED <<now, outsideSeq>>

DoSize ==
    /\ status = "ok"
    /\ lastOp' = [OpOn("size", "") EXCEPT !.size = LRUSize(World)]
    /\ UNCHANGED <<cacheVars, now, held, stored, deadline, recent, outsideSeq>>

\* cleanupExpired: one tick of the sweeper.
DoSweep ==
    /\ status = "ok"
    /\ \E w \in {removeExpired(World, now)} :
       \E c \in {Collect(w, <<>>, <<held>>)} :
           /\ SetWorld(c.w)
           /\ held' = c.m[held]
           /\ Forget(DOMAIN w.items)
    /\ lastOp' = [OpOn("sweep", "") EXCEPT
                     !.removed = Cardinality(DOMAIN items) - Cardinality(DOMAIN items')]
    /\ UNCHANGED <<now, outsideSeq>>

\* The caller rewrites the id of the message it holds (as the handler does
\* with a message it is about to write).
Mutate(id) ==
    /\ status = "ok"
    /\ held # NilPtr
    /\ heap[held].Id # id
    /\ heap' = [heap EXCEPT ![held].Id = id]
    /\ lastOp' = OpOn("mutate", "")
    /\ UNCHANGED <<items, entries, evictList, status, now, held, stored,
                   deadline, recent, outsideSeq>>

Tick ==
    /\ status = "ok"
    /\ now < MaxTime
    /\ now' = now + 1
    /\ lastOp' = OpOn("tick", "")
    /\ UNCHANGED <<cacheVars, held, stored, deadline, recent, outsideSeq>>

Next ==
    \/ \E key \in Keys, m \in SampleMsgs, ttl \in TTLs : DoSet(key, m, ttl, FALSE)
    \/ \E key \in Keys : DoGet(key, FALSE)
    \/ \E key \in Keys : DoDelete(key)
    \/ DoClear
    \/ DoSize
    \/ DoSweep
    \/ Tick

Spec == Init /\ [][Next]_vars

\* SpecCaller: a caller that keeps the messages it passes to set and is
\* handed by get, and rewrites their ids.
NextCaller ==
    \/ \E key \in CallerKeys, m \in SampleMsgs, ttl \in TTLs : DoSet(key, m, ttl, TRUE)
    \/ \E key \in CallerKeys : DoGet(key, TRUE)
    \/ \E id \in MsgIds : Mutate(id)
    \/ \E key \in CallerKeys : DoDelete(key)
    \/ Tick

SpecCaller == Init /\ [][NextCaller]_vars


-----------------------------------------------------------------------------
(* SpecGoroutines: goroutines calling the cache concurrently.  A step is    *)
(* one critical section on c.mu, or one access Get makes outside of any:    *)
(* Get reads the map under RLock, reads entry.ExpiresAt holding no lock,    *)
(* then either calls Delete or takes the lock to move the element to the    *)
(* front, and reads entry.Response holding no lock.  Set, Delete, Clear and *)
(* removeExpired are one critical section each.                             *)

EntryRoots == [t \in Goroutines |-> gets[t].entry]

\* The world w becomes the state, goroutine t's Get moving on to g.
Commit(w, t, g) ==
    \E c \in {Collect(w, [u \in Goroutines |->
                             IF u = t THEN g.entry ELSE gets[u].entry], <<>>)} :
        /\ SetWorld(c.w)
        /\ gets' = [u \in Goroutines |->
                       LET x == IF u = t THEN g ELSE gets[u]
                       IN  [x EXCEPT !.entry = IF @ \in DOMAIN c.e THEN c.e[@]
                                               ELSE NilPtr]]

CommitAll(w) ==
    \E c \in {Collect(w, EntryRoots, <<>>)} :
        /\ SetWorld(c.w)
        /\ gets' = [u \in Goroutines |-> [gets[u] EXCEPT !.entry = c.e[@]]]

\* Get, lines 198-204: the lookup under RLock.
GetLookup(t, key) ==
    /\ status = "ok"
    /\ gets[t].pc = "idle"
    /\ IF key \in DOMAIN items
       THEN gets' = [gets EXCEPT ![t] = [pc |-> "check", key |-> key,
                                         entry |-> items[key]]]
       ELSE gets' = gets
    /\ UNCHANGED <<cacheVars, now, outsideGo>>

\* Get, line 206: the expiry test, under no lock.
GetCheck(t) ==
    /\ status = "ok"
    /\ gets[t].pc = "check"
    /\ gets' = [gets EXCEPT ![t].pc =
                   IF Expired(World, gets[t].entry, now) THEN "delete" ELSE "touch"]
    /\ UNCHANGED <<cacheVars, now, outsideGo>>

\* Get, line 207: c.Delete(key), and the miss is returned.
GetDelete(t) ==
    /\ status = "ok"
    /\ gets[t].pc = "delete"
    /\ Commit(LRUDelete(World, gets[t].key), t, Idle)
    /\ UNCHANGED <<now, outsideGo>>

\* Get, lines 211-213: the move to the front, under Lock.
GetMove(t) ==
    /\ status = "ok"
    /\ gets[t].pc = "touch"
    /\ Commit(GetTouch(World, gets[t].entry), t, [gets[t] EXCEPT !.pc = "copy"])
    /\ UNCHANGED <<now, outsideGo>>

\* Get, line 215: the copy of entry.Response, and the hit is returned.
GetReturn(t) ==
    /\ status = "ok"
    /\ gets[t].pc = "copy"
    /\ Commit(World, t, Idle)
    /\ UNCHANGED <<now, outsideGo>>

GoSet(key, m, ttl) ==
    /\ status = "ok"
    /\ key \in DOMAIN items \/ Len(entries) < MaxEntries
    /\ \E v \in {MsgNew(World, m)} : CommitAll(LRUSet(v.w, key, v.p, ttl, now))
    /\ UNCHANGED <<now, outsideGo>>

GoDelete(key) ==
    /\ status = "ok"
    /\ key \in DOMAIN items
    /\ CommitAll(LRUDelete(World, key))
    /\ UNCHANGED <<now, outsideGo>>

GoClear ==
    /\ status = "ok"
    /\ CommitAll(LRUClear(World))
    /\ UNCHANGED <<now, outsideGo>>

GoSweep ==
    /\ status = "ok"
    /\ CommitAll(removeExpired(World, now))
    /\ UNCHANGED <<now, outsideGo>>

GoTick ==
    /\ status = "ok"
    /\ now < MaxTime
    /\ now' = now + 1
    /\ UNCHANGED <<cacheVars, outsideGo, gets>>

NextGoroutines ==
    \/ \E t \in Goroutines, key \in GoKeys : GetLookup(t, key)
    \/ \E t \in Goroutines : GetCheck(t)
    \/ \E t \in Goroutines : GetDelete(t)
    \/ \E t \in Goroutines : GetMove(t)
    \/ \E t \in Goroutines : GetReturn(t)
    \/ \E key \in GoKeys, m \in GoMsgs, ttl \in GoTTLs : GoSet(key, m, ttl)
    \/ \E key \in GoKeys : GoDelete(key)
    \/ GoClear
    \/ GoSweep
    \/ GoTick

SpecGoroutines == Init /\ [][NextGoroutines]_vars

-----------------------------------------------------------------------------
(* Claims about the cache used by one caller (Spec) *)

EntryOf(key) == entries[items[key]]

\* C1: after every operation of a sequential run, 0 <= size() <= capacity,
\* and the recency list holds exactly the entries of the key map: the same
\* count, the same entries walking from either end, each under its own key.
C1_SizeBoundedListIsMap ==
    /\ LRUSize(World) \in 0..capacity
    /\ lastOp.op = "size" => lastOp.size = LRUSize(World) /\ lastOp.size <= capacity
    /\ ListLen(World) = LRUSize(World)
    /\ Len(ListElems(World)) = LRUSize(World)
    /\ SeqSet(ListElems(World)) = Range(items)
    /\ SeqSet(ListElemsBack(World)) = Range(items)
    /\ \A k \in DOMAIN items : EntryOf(k).Key = k /\ EntryOf(k).list
    /\ status = "ok"

C1_Witness ==
    /\ lastOp.op = "set"
    /\ lastOp.wasFull /\ ~lastOp.hadKey
    /\ LRUSize(World) = capacity

\* C3: a get that hits returns the message given to the key's latest set,
\* whatever the caller has since done to the message it passed in or to a
\* message an earlier get returned; right after a set the key is a hit; and
\* the stored message is an object of its own, not the one the caller holds.
C3_GetReturnsWhatWasSet ==
    /\ lastOp.op = "get" /\ lastOp.found => lastOp.ret = <<stored[lastOp.key]>>
    /\ lastOp.op = "set" => LRUGet(World, lastOp.key, now).found
    /\ \A k \in DOMAIN items :
           /\ EntryOf(k).Response # held
           /\ LET r == LRUGet(World, k, now)
              IN  r.found => r.w.heap[r.p] = stored[k]

\* The caller has rewritten the id of a message that is, but for the id, the
\* one stored under a key that a get would still hit.
C3_Witness ==
    /\ lastOp.op = "mutate"
    /\ \E k \in DOMAIN items :
           /\ heap[held] # stored[k]
           /\ [heap[held] EXCEPT !.Id = stored[k].Id] = stored[k]
           /\ LRUGet(World, k, now).found

\* C4: a get of a key whose latest set (of ttl seconds, of the default TTL
\* when ttl = 0) lies more than that long back reports a miss and removes
\* the entry, so the key is no longer counted.
C4_ExpiredGetMissesAndRemoves ==
    /\ lastOp.op = "get" /\ lastOp.late =>
           /\ ~lastOp.found
           /\ lastOp.key \notin DOMAIN items
           /\ lastOp.key \notin {entries[e].Key : e \in SeqSet(ListElems(World))}
    /\ \A k \in DOMAIN deadline :
           now > deadline[k] =>
               LET r == LRUGet(World, k, now)
               IN  ~r.found /\ LRUSize(r.w) = LRUSize(World) - 1

C4_Witness ==
    /\ lastOp.op = "get" /\ lastOp.late /\ lastOp.hadKey
    /\ ~lastOp.found

\* C5: the list is ordered by last access (a get that hits and a set move
\* the key to the head); a set of a new key into a full cache evicts the
\* least recently accessed key and nothing else; a set of a key already
\* present replaces response and expiry, moves it to the head and evicts
\* nothing.  Entries not named by the operation keep response and expiry.
SameEntry(k) ==
    /\ EntryOf(k)'.ExpiresAt = EntryOf(k).ExpiresAt
    /\ heap'[EntryOf(k)'.Response] = heap[EntryOf(k).Response]

SetStep(k) ==
    /\ ListKeys(World)' = <<k>> \o SeqWithout(recent', k)
    /\ heap'[EntryOf(k)'.Response] = stored'[k]
    /\ EntryOf(k)'.ExpiresAt = deadline'[k]
    /\ \A j \in DOMAIN items' \ {k} : j \in DOMAIN items /\ SameEntry(j)
    /\ IF k \in DOMAIN items
       THEN /\ DOMAIN items' = DOMAIN items
            /\ recent' = <<k>> \o SeqWithout(recent, k)
       ELSE IF Cardinality(DOMAIN items) >= capacity
       THEN /\ DOMAIN items' = (DOMAIN items \ {recent[Len(recent)]}) \cup {k}
            /\ recent' = <<k>> \o SubSeq(recent, 1, Len(recent) - 1)
       ELSE /\ DOMAIN items' = DOMAIN items \cup {k}
            /\ recent' = <<k>> \o recent

GetHitStep(k) ==
    /\ ListKeys(World)' = <<k>> \o SeqWithout(ListKeys(World), k)
    /\ DOMAIN items' = DOMAIN items
    /\ \A j \in DOMAIN items : SameEntry(j)

C5_LeastRecentlyUsedEvicted ==
    [][/\ ListKeys(World)' = recent'
       /\ \A k \in Keys :
              /\ lastOp'.op = "set" /\ lastOp'.key = k => SetStep(k)
              /\ lastOp'.op = "get" /\ lastOp'.key = k /\ lastOp'.found
                     => GetHitStep(k)]_vars

\* A set of a new key has just evicted from a full cache whose least
\* recently used key was not the one stored last.
C5_Witness ==
    /\ lastOp.op = "set" /\ lastOp.wasFull /\ ~lastOp.hadKey
    /\ Len(recent) = capacity
    /\ recent[1] = lastOp.key
    /\ \E k \in Keys : k \notin DOMAIN items /\ k # lastOp.key

-----------------------------------------------------------------------------
(* Claims about the cache used by several goroutines (SpecGoroutines) *)

\* C2: under every interleaving of get, set, delete, clear and sweeper
\* runs, whenever no goroutine holds the lock the list and the map hold the
\* same entries, no more than capacity, and no element is linked into the
\* list that the map does not hold (so a get overtaken by a clear has not
\* linked its entry back).
C2_ListIsMapUnderInterleaving ==
    /\ status = "ok"
    /\ LRUSize(World) <= capacity
    /\ ListLen(World) = LRUSize(World)
    /\ Len(ListElems(World)) = LRUSize(World)
    /\ SeqSet(ListElems(World)) = Range(items)
    /\ SeqSet(ListElemsBack(World)) = Range(items)
    /\ SeqSet(physWalk(World, evictList.next, {})) = Range(items)

-----------------------------------------------------------------------------
(* SpecSnapshot: the cache dumped to dns-cache.gob when the server stops    *)
(* and loaded into the new cache of the server started next.                *)

\* encoding/gob sends the value of an interface (here every dns.RR of
\* Msg.Answer) under the name its concrete type was registered with
\* (gob.Register), and refuses a type that was not.  The program registers
\* none.
gobRegistered == {}

gobEncodable(m) == \A i \in DOMAIN m.Answer : m.Answer[i].Rrtype \in gobRegistered

\* encoder.Encode(entries) into the file os.Create has just truncated: the
\* entries, or (the value refused) type descriptors that no value follows.
gobEncode(es) ==
    IF \A i \in DOMAIN es : gobEncodable(es[i].Response)
    THEN [exists |-> TRUE, decodable |-> TRUE, entries |-> es]
    ELSE [exists |-> TRUE, decodable |-> FALSE, entries |-> <<>>]

SerializableCacheEntry(w, e) ==
    [Key |-> w.entries[e].Key, Response |-> w.heap[w.entries[e].Response],
     ExpiresAt |-> w.entries[e].ExpiresAt]

\* now.Before(entry.ExpiresAt)
LiveBefore(expiresAt, t) == t < expiresAt

\* The orders in which a range over the map may yield its keys.
MapOrders(S) ==
    {o \in [1..Cardinality(S) -> S] : \A i, j \in DOMAIN o : o[i] = o[j] => i = j}

\* LRUCache.DumpToFile, the map yielding its keys in the order `order`.
DumpToFile(w, order, t) ==
    LET live == SelectSeq(order, LAMBDA k :
                    LiveBefore(w.entries[w.items[k]].ExpiresAt, t))
    IN  gobEncode([i \in 1..Len(live) |-> SerializableCacheEntry(w, w.items[live[i]])])

\* LRUCache.LoadFromFile, the loop over the decoded entries from the i-th on.
RECURSIVE loadEntries(_, _, _, _)
loadEntries(w, es, i, t) ==
    IF i > Len(es) \/ w.status # "ok" THEN w
    ELSE IF ~LiveBefore(es[i].ExpiresAt, t) THEN loadEntries(w, es, i + 1, t)
    ELSE LET w1 == IF ListLen(w) >= capacity THEN removeOldest(w) ELSE w
         IN  IF w1.status # "ok" THEN w1
             ELSE LET d == MsgNew(w1, es[i].Response)
                      e == MinFree(DOMAIN d.w.entries)
                      w2 == [d.w EXCEPT !.entries =
                                (e :> NewEntry(es[i].Key, d.p, es[i].ExpiresAt)) @@ @]
                      w3 == ListPushFront(w2, e)
                  IN  loadEntries([w3 EXCEPT !.items = (es[i].Key :> e) @@ @],
                                  es, i + 1, t)

\* (mutant) the cache is emptied before the file is opened.
LoadIntoCleared(w, f, t) ==
    IF ~f.exists \/ ~f.decodable THEN [w |-> LRUClear(w), err |-> TRUE]
    ELSE [w |-> loadEntries(LRUClear(w), f.entries, 1, t), err |-> FALSE]

\* LRUCache.LoadFromFile: [w, err].
LoadFromFile(w, f, t) ==
    IF ~f.exists \/ ~f.decodable THEN [w |-> w, err |-> TRUE]
    ELSE [w |-> loadEntries(w, f.entries, 1, t), err |-> FALSE]

\* What Get would hit at time t: the entries not expired.
LiveEntries(w, t) ==
    [k \in {j \in DOMAIN w.items : ~Expired(w, w.items[j], t)} |->
        SerializableCacheEntry(w, w.items[k])]

\* Server.Stop: the cache is dumped.
Dump ==
    /\ status = "ok"
    /\ \E order \in MapOrders(DOMAIN items) : file' = DumpToFile(World, order, now)
    /\ snap' = LiveEntries(World, now)
    /\ lastOp' = [OpOn("dump", "") EXCEPT !.found = file'.decodable]
    /\ UNCHANGED <<cacheVars, now, held, stored, deadline, recent, outsideSnap>>

\* NewServer: a new cache, into which the file is loaded.
Restart ==
    /\ status = "ok"
    /\ \E r \in {LoadFromFile([items |-> EmptyFn, entries |-> <<>>,
                               evictList |-> EmptyList, heap |-> <<>>,
                               status |-> "ok"], file, now)} :
       \E c \in {Collect(r.w, <<>>, <<>>)} :
           /\ SetWorld(c.w)
           /\ stored' = [k \in DOMAIN c.w.items |->
                            c.w.heap[c.w.entries[c.w.items[k]].Response]]
           /\ deadline' = [k \in DOMAIN c.w.items |->
                              c.w.entries[c.w.items[k]].ExpiresAt]
           /\ recent' = ListKeys(c.w)
           /\ lastOp' = [OpOn("restart", "") EXCEPT !.found = ~r.err]
    /\ held' = NilPtr
    /\ UNCHANGED <<now, file, snap, outsideSnap>>

NextSnapshot ==
    \/ \E key \in CallerKeys, m \in SampleMsgs, ttl \in TTLs : DoSet(key, m, ttl, FALSE)
    \/ Tick
    \/ Dump
    \/ Restart

SpecSnapshot == Init /\ [][NextSnapshot]_vars

-----------------------------------------------------------------------------
(* Claims about dump and load (SpecSnapshot) *)

\* C6: a cache dumped and then loaded into a new, empty cache of the same
\* capacity holds exactly the keys that were not expired at the dump and are
\* not expired at the load, each with the response and the expiry instant
\* it had at the dump.
C6_RestoreKeepsLiveEntries ==
    lastOp.op = "restart" =>
        /\ DOMAIN items = {k \in DOMAIN snap : ~(now > snap[k].ExpiresAt)}
        /\ \A k \in DOMAIN items :
               /\ heap[EntryOf(k).Response] = snap[k].Response
               /\ EntryOf(k).ExpiresAt = snap[k].ExpiresAt

-----------------------------------------------------------------------------
(* SpecResolver: the local resolver, built from the records of a            *)
(* configuration, answering questions.                                      *)

\* The names a.b, *.c, *.a.c and b.c.
Host == <<"a", ".", "b">>
WildC == <<"*", ".", "c">>
WildAC == <<"*", ".", "a", ".", "c">>
HostBC == <<"b", ".", "c">>

\* a.b with a record of every type and the wildcard *.c with one of every
\* type hasWildcardMatch knows.
RecordsExactAndWildcard ==
    [loaded |-> TRUE,
     A |-> (Host :> IPv4(1)) @@ (WildC :> IPv4(7)),
     AAAA |-> (Host :> IPv6(2)) @@ (WildC :> IPv6(8)),
     CNAME |-> (Host :> <<"c">>) @@ (WildC :> <<"a", ".", "b", ".">>),
     MX |-> (Host :> [Priority |-> 10, Target |-> <<"c">>])
            @@ (WildC :> [Priority |-> 20, Target |-> <<"b", ".">>]),
     TXT |-> (Host :> "t") @@ (WildC :> "w"),
     SRV |-> (Host :> [Priority |-> 1, Weight |-> 2, Port |-> 53,
                       Target |-> <<"c", ".">>])]

\* The same with the closer wildcard *.a.c and the exact name b.c.
RecordsCloserWildcard ==
    [RecordsExactAndWildcard EXCEPT
        !.A = (WildAC :> IPv4(9)) @@ (HostBC :> IPv4(3)) @@ @,
        !.TXT = (WildAC :> "v") @@ (HostBC :> "x") @@ @]

\* Addresses of the other family, which validateRecords lets through.
RecordsOtherFamily ==
    [NoRecords EXCEPT !.loaded = TRUE,
                      !.A = (Host :> IPv6(2)) @@ (WildC :> IPv6(8)),
                      !.AAAA = (Host :> IPv4(1)) @@ (WildC :> IPv4(7))]

RecordSets ==
    {RecordsExactAndWildcard, RecordsCloserWildcard, RecordsOtherFamily,
     [NoRecords EXCEPT !.loaded = TRUE]}

QuestionNames ==
    {Host \o Dot, Host, <<"A", ".", "b", ".">>, <<"a", ".", "c", ".">>,
     <<"b", ".", "a", ".", "c", ".">>, <<"c", ".">>, WildC \o Dot, HostBC \o Dot}

QuestionTypes == {TypeA, TypeAAAA, TypeCNAME, TypeMX, TypeTXT, TypeSRV, TypeMAILA}

\* NewLocalResolver, with the records of the configuration loaded.
NewLocalResolver(rs) ==
    /\ ~records.loaded
    /\ records' = rs
    /\ UNCHANGED <<asked, reply, status, outsideRes>>

\* One call of LocalResolver.Resolve.  A stack used up ends the process.
Ask(question) ==
    /\ status = "ok"
    /\ records.loaded
    /\ asked' = question
    /\ reply' = Resolve(records, question, {})
    /\ status' = reply'.status
    /\ UNCHANGED <<records, outsideRes>>

NextResolver ==
    \/ \E rs \in RecordSets : NewLocalResolver(rs)
    \/ \E name \in QuestionNames, qtype \in QuestionTypes :
           Ask(Question(name, qtype, ClassINET))

SpecResolver == Init /\ [][NextResolver]_vars

-----------------------------------------------------------------------------
(* Claims about the local resolver (SpecResolver) *)

\* The table of the records of one type.
TableOf(rec, qtype) ==
    CASE qtype = TypeA -> rec.A
      [] qtype = TypeAAAA -> rec.AAAA
      [] qtype = TypeCNAME -> rec.CNAME
      [] qtype = TypeMX -> rec.MX
      [] qtype = TypeTXT -> rec.TXT
      [] qtype = TypeSRV -> rec.SRV
      [] OTHER -> EmptyFn

\* The name, as asked, is the key in some spelling: letters of either case,
\* with or without the trailing dot.
Spells(name, key) ==
    LET n == IF Len(name) > 0 /\ name[Len(name)] = "."
             THEN SubSeq(name, 1, Len(name) - 1) ELSE name
    IN  /\ Len(n) = Len(key)
        /\ \A i \in 1..Len(n) :
               \/ n[i] = key[i]
               \/ <<n[i], key[i]>> \in {<<"A", "a">>, <<"B", "b">>, <<"C", "c">>}

\* An A record needs an IPv4 address, an AAAA record an address.
WellFormed(qtype, value) ==
    /\ qtype = TypeA => value.form = "v4"
    /\ qtype = TypeAAAA => value.form \in {"v4", "v6"}

\* C7: a question whose name, lowered and without its trailing dot, is a key
\* of the table of the question's type with a well-formed value is answered
\* found, with exactly one answer record: owner the name as asked, class IN,
\* TTL 300; AA set, RA clear, rcode NOERROR.
C7_ExactMatchAnswered ==
    \A key \in DOMAIN TableOf(records, asked.Qtype) :
        Spells(asked.Name, key)
            /\ WellFormed(asked.Qtype, TableOf(records, asked.Qtype)[key])
        => /\ reply.status = "ok"
           /\ reply.found
           /\ Len(reply.msg.Answer) = 1
           /\ reply.msg.Answer[1].Name = asked.Name
           /\ reply.msg.Answer[1].Rrtype = asked.Qtype
           /\ reply.msg.Answer[1].Class = ClassINET
           /\ reply.msg.Answer[1].Ttl = 300
           /\ reply.msg.Authoritative
           /\ ~reply.msg.RecursionAvailable
           /\ reply.msg.Rcode = RcodeSuccess

\* A.b. was asked for, in capitals and with the dot, and the record of a.b
\* found.
C7_Witness ==
    /\ asked.Name = <<"A", ".", "b", ".">>
    /\ asked.Qtype = TypeCNAME
    /\ reply.found
    /\ reply.msg.Answer[1].Name = asked.Name

WildcardTypes == {TypeA, TypeAAAA, TypeCNAME, TypeMX, TypeTXT}

IsWildcard(key) == Len(key) > 2 /\ SubSeq(key, 1, 2) = <<"*", ".">>

\* The name has one or more labels in front of the wildcard's suffix.
Under(name, wildcard) ==
    LET suffix == Dot \o SubSeq(wildcard, 3, Len(wildcard))
    IN  /\ Len(name) > Len(suffix)
        /\ SubSeq(name, Len(name) - Len(suffix) + 1, Len(name)) = suffix

\* C8: a question of type A, AAAA, CNAME, MX or TXT whose name has one or
\* more labels in front of the suffix of a wildcard of that type, and
\* matches no exact record and no closer wildcard, is answered found with
\* the wildcard's value under the name asked for, however many the labels.
C8_WildcardAnswersAnyDepth ==
    asked.Qtype \in WildcardTypes =>
        LET table == TableOf(records, asked.Qtype)
            name == ToLower(TrimSuffix(asked.Name))
        IN  \A w \in DOMAIN table :
                /\ IsWildcard(w)
                /\ Under(name, w)
                /\ WellFormed(asked.Qtype, table[w])
                /\ name \notin DOMAIN table
                /\ \A v \in DOMAIN table :
                       ~(IsWildcard(v) /\ Len(v) > Len(w) /\ Under(name, v))
                => /\ reply.status = "ok"
                   /\ reply.found
                   /\ Len(reply.msg.Answer) = 1
                   /\ reply.msg.Answer[1].Name = asked.Name
                   /\ reply.msg.Answer[1].Data =
                          LocalRR(records, w, [asked EXCEPT !.Name = w]).rr.Data

-----------------------------------------------------------------------------
(* SpecHandler: the handler serving one request after another, from the     *)
(* cache, the local resolver and the upstream forwarder.  Times are in      *)
(* seconds.                                                                 *)

\* dns.TypeToString and dns.ClassToString; a key they do not hold yields "".
TypeToString(qtype) ==
    CASE qtype = TypeA -> "A"
      [] qtype = TypeCNAME -> "CNAME"
      [] qtype = TypeMX -> "MX"
      [] qtype = TypeTXT -> "TXT"
      [] qtype = TypeAAAA -> "AAAA"
      [] qtype = TypeSRV -> "SRV"
      [] qtype = TypeMAILA -> "MAILA"
      [] OTHER -> ""

\* dns.ClassToString[qclass]: the mnemonic of the class, the empty string
\* for a class the map does not hold.
ClassToString(qclass) ==
    CASE qclass = ClassINET -> "IN"
      [] qclass = 2 -> "CS"
      [] qclass = 3 -> "CH"
      [] qclass = 4 -> "HS"
      [] qclass = 254 -> "NONE"
      [] qclass = 255 -> "ANY"
      [] OTHER -> ""

\* cache.GenerateCacheKey
GenerateCacheKey(question) ==
    question.Name \o <<":", TypeToString(question.Qtype), ":",
                       ClassToString(question.Qclass)>>

\* (mutant) every type is served.
isSupportedAny(qtype) == TRUE

\* Handler.isSupportedType, on the types of the model.
isSupportedType(qtype) ==
    qtype \in {TypeA, TypeAAAA, TypeCNAME, TypeMX, TypeTXT, TypeSRV}

MinOf(S) == CHOOSE x \in S : \A y \in S : x <= y

\* (mutant) nothing is worth caching.
extractNoTTL(msg) == 0

\* Handler.extractTTL, in seconds
\* (mutant) a reply without answers gets no lifetime.
extractTTLOfAnswers(msg) ==
    IF Len(msg.Answer) = 0 THEN 0
    ELSE LET minTTL == MinOf({3600} \cup {msg.Answer[i].Ttl : i \in DOMAIN msg.Answer})
         IN  IF minTTL < 60 THEN 60 ELSE minTTL

extractTTL(msg) ==
    IF Len(msg.Answer) = 0 THEN 300
    ELSE LET minTTL == MinOf({3600} \cup {msg.Answer[i].Ttl : i \in DOMAIN msg.Answer})
         IN  IF minTTL < 60 THEN 60 ELSE minTTL

\* ServeDNS, lines 36-39: the reply to r, nothing in it yet.
Skeleton(r) ==
    NewMsg(r.Id, IF r.Question = <<>> THEN <<>> ELSE <<r.Question[1]>>,
           RcodeSuccess, <<>>)

\* The cache's entries by key.
CacheContent(w) ==
    [k \in DOMAIN w.items |-> SerializableCacheEntry(w, w.items[k])]

\* a.b (a local record) and the names c and b, which only upstream knows.
HandlerQuestions ==
    {Question(Host \o Dot, TypeA, ClassINET),
     Question(<<"c", ".">>, TypeA, ClassINET),
     Question(<<"c", ".">>, TypeMAILA, ClassINET)}

Requests ==
    {[Id |-> id, Question |-> qs] :
        id \in MsgIds, qs \in {<<>>} \cup {<<q>> : q \in HandlerQuestions}}

\* What one exchange with an upstream server may bring: an error, or a
\* reply of some rcode.
UpstreamOutcomes ==
    {[err |-> TRUE, rcode |-> RcodeSuccess, answer |-> <<>>],
     [err |-> FALSE, rcode |-> RcodeSuccess, answer |-> <<[ttl |-> 30]>>],
     [err |-> FALSE, rcode |-> RcodeSuccess, answer |-> <<>>],
     [err |-> FALSE, rcode |-> RcodeNameError, answer |-> <<>>],
     [err |-> FALSE, rcode |-> RcodeServerFailure, answer |-> <<>>]}

UpstreamReply(question, o) ==
    NewMsg(0, <<question>>, o.rcode,
           [i \in DOMAIN o.answer |->
               RR(question.Name, question.Qtype, o.answer[i].ttl, [A |-> IPv4(5)])])

\* (mutant) a name error is not an answer.
UsableOnlySuccess(response) == response.Rcode = RcodeSuccess

\* (mutant) any reply will do.
UsableAlways(response) == TRUE

\* UpstreamResolver.Resolve, line 76: the reply is returned to the handler.
Usable(response) == response.Rcode \in {RcodeSuccess, RcodeNameError}

\* ServeDNS ends: msg is written.
Finish(msg, source) ==
    /\ written' = Append(written, msg)
    /\ req' = [req EXCEPT !.pc = "idle", !.source = source]

\* queryServer, lines 108-110: the exchange with the server failed.
ExchangeFailed(server) == [kind |-> "exchange failed", server |-> server, rcode |-> 0]

\* Resolve, line 86: the server answered with another rcode.
ErrorCode(rcode) == [kind |-> "server returned error code", server |-> 0, rcode |-> rcode]

\* (mutant) the first failure is kept.
firstErr(lastErr, e) == IF lastErr = NoErr THEN e ELSE lastErr

\* Resolve, lines 66 and 86: lastErr = ...
setLastErr(lastErr, e) == e

\* Resolve, lines 62 and 93: return nil, ctx.Err()
CtxErr == [kind |-> "context deadline exceeded", attempts |-> 0, wraps |-> NoErr]

\* Resolve, lines 99-103: the error after the last attempt.
FailedToResolve(lastErr) ==
    [kind |-> "failed to resolve", attempts |-> retries + 1,
     wraps |-> IF lastErr = NoErr
               THEN [NoErr EXCEPT !.kind = "all upstream servers failed"]
               ELSE lastErr]

\* Resolve, line 90: time.Duration(attempt+1) * 100 * time.Millisecond, in ms
backoff(attempt) == (attempt + 1) * BackoffUnit

\* ServeDNS, lines 96-105: the forwarder returned an error.
ServFail(q, err) ==
    /\ written' = Append(written, [Skeleton(req.r) EXCEPT !.Rcode = RcodeServerFailure])
    /\ req' = [q EXCEPT !.pc = "idle", !.source = "servfail", !.err = err,
                        !.lastErr = NoErr]

\* NewServer: the resolver of the configured records.
StartHandler ==
    /\ NewLocalResolver(RecordsExactAndWildcard)

\* ServeDNS, lines 33-58: a request arrives.
ServeDNS(r) ==
    /\ status = "ok"
    /\ records.loaded
    /\ req.pc = "idle"
    /\ LET start ==
               [IdleReq EXCEPT
                   !.r = r, !.at = now,
                   !.prev = [question |-> IF req.r.Question = <<>> THEN NoQuestion
                                          ELSE req.r.Question[1],
                             source |-> req.source, at |-> req.at,
                             ttl |-> IF req.source \in {"local", "upstream"}
                                     THEN extractTTL(written[1]) ELSE 0]]
       IN  IF Len(r.Question) = 0
           THEN /\ req' = [start EXCEPT !.source = "formerr"]
                /\ written' = <<[Skeleton(r) EXCEPT !.Rcode = RcodeFormatError]>>
           ELSE IF ~isSupportedType(r.Question[1].Qtype)
           THEN /\ req' = [start EXCEPT !.source = "notimp"]
                /\ written' = <<[Skeleton(r) EXCEPT !.Rcode = RcodeNotImplemented]>>
           ELSE /\ req' = [start EXCEPT !.pc = "cache"]
                /\ written' = <<>>
    /\ calls' = <<>>
    /\ before' = CacheContent(World)
    /\ UNCHANGED <<cacheVars, now, outsideH>>

\* ServeDNS, lines 60-71: the cache is consulted.
ConsultCache ==
    /\ status = "ok"
    /\ req.pc = "cache"
    /\ calls' = Append(calls, "cache")
    /\ \E g \in {LRUGet(World, GenerateCacheKey(req.r.Question[1]), now)} :
           IF g.found
           THEN \E w \in {[g.w EXCEPT !.heap[g.p].Id = req.r.Id]} :
                \E c \in {Collect(w, <<>>, <<>>)} :
                    /\ SetWorld(c.w)
                    /\ Finish(w.heap[g.p], "cache")
           ELSE \E c \in {Collect(g.w, <<>>, <<>>)} :
                    /\ SetWorld(c.w)
                    /\ req' = [req EXCEPT !.pc = "local"]
                    /\ written' = written
    /\ UNCHANGED <<now, before, outsideH>>

\* ServeDNS, lines 73-88: the local resolver is consulted.
ConsultLocal ==
    /\ status = "ok"
    /\ req.pc = "local"
    /\ calls' = Append(calls, "local")
    /\ \E l \in {Resolve(records, req.r.Question[1], {})} :
           IF l.status # "ok"
           THEN /\ SetWorld([World EXCEPT !.status = l.status])
                /\ UNCHANGED <<req, written>>
           ELSE IF l.found
           THEN \E v \in {MsgNew(World, [l.msg EXCEPT !.Id = req.r.Id])} :
                \E ttl \in {extractTTL(v.w.heap[v.p])} :
                \E w \in {IF ttl > 0
                          THEN LRUSet(v.w, GenerateCacheKey(req.r.Question[1]),
                                      v.p, ttl, now)
                          ELSE v.w} :
                \E c \in {Collect(w, <<>>, <<>>)} :
                    /\ SetWorld(c.w)
                    /\ Finish(v.w.heap[v.p], "local")
           ELSE /\ req' = [req EXCEPT !.pc = "upstream"]
                /\ UNCHANGED <<cacheVars, written>>
    /\ UNCHANGED <<now, before, outsideH>>

\* ServeDNS, line 95, and UpstreamResolver.Resolve, lines 48-57: the
\* question goes to the forwarder.
Forward ==
    /\ status = "ok"
    /\ req.pc = "upstream"
    /\ calls' = Append(calls, "upstream")
    /\ req' = [req EXCEPT !.pc = "exchange", !.attempt = 0, !.server = 1]
    /\ UNCHANGED <<cacheVars, now, written, before, outsideH>>

\* UpstreamResolver.Resolve, lines 58-87 and 99-103, and ServeDNS, lines
\* 96-115: one turn of the loop over the servers, with what ServeDNS does
\* when it was the last.
Exchange(o) ==
    /\ status = "ok"
    /\ req.pc = "exchange"
    /\ IF req.ctxDone
       THEN ServFail(req, CtxErr) /\ UNCHANGED cacheVars
       ELSE \E q \in {[req EXCEPT
                          !.last = [server |-> req.server, err |-> o.err,
                                    rcode |-> o.rcode],
                          !.lastErr =
                              IF o.err
                              THEN setLastErr(@, ExchangeFailed(req.server))
                              ELSE IF ~Usable(UpstreamReply(req.r.Question[1], o))
                              THEN setLastErr(@, ErrorCode(o.rcode))
                              ELSE @,
                          !.exchanges = @ + 1,
                          !.allBad = @ /\ (o.err \/ o.rcode \notin
                                               {RcodeSuccess, RcodeNameError})]} :
            IF ~o.err /\ Usable(UpstreamReply(req.r.Question[1], o))
            THEN \E v \in {MsgNew(World, [UpstreamReply(req.r.Question[1], o)
                                             EXCEPT !.Id = req.r.Id])} :
                 \E ttl \in {extractTTL(v.w.heap[v.p])} :
                 \E w \in {IF ttl > 0
                           THEN LRUSet(v.w, GenerateCacheKey(req.r.Question[1]),
                                       v.p, ttl, now)
                           ELSE v.w} :
                 \E c \in {Collect(w, <<>>, <<>>)} :
                     /\ SetWorld(c.w)
                     /\ written' = Append(written, v.w.heap[v.p])
                     /\ req' = [q EXCEPT !.pc = "idle", !.source = "upstream",
                                         !.lastErr = NoErr, !.last = NoExchange]
            ELSE IF req.server < NumServers
            THEN /\ req' = [q EXCEPT !.server = @ + 1]
                 /\ UNCHANGED <<cacheVars, written>>
            ELSE IF req.attempt < retries
            THEN /\ req' = [q EXCEPT !.pc = "backoff"]
                 /\ UNCHANGED <<cacheVars, written>>
            ELSE /\ ServFail(q, FailedToResolve(q.lastErr))
                 /\ UNCHANGED cacheVars
    /\ UNCHANGED <<now, calls, before, outsideH>>

\* UpstreamResolver.Resolve, lines 89-96: the wait before the next attempt,
\* ended by the timer or by the context.
Backoff(timer) ==
    /\ status = "ok"
    /\ req.pc = "backoff"
    /\ timer \/ req.ctxDone
    /\ IF timer
       THEN /\ req' = [req EXCEPT !.pc = "exchange", !.attempt = @ + 1, !.server = 1,
                                   !.slept = Append(@, backoff(req.attempt))]
            /\ written' = written
       ELSE ServFail(req, CtxErr)
    /\ UNCHANGED <<cacheVars, now, calls, before, outsideH>>

\* The request's context (5 s) runs out.
CtxTimeout ==
    /\ status = "ok"
    /\ req.pc # "idle"
    /\ ~req.ctxDone
    /\ req' = [req EXCEPT !.ctxDone = TRUE]
    /\ UNCHANGED <<cacheVars, now, calls, written, before, outsideH>>

\* Time passes between requests.
Elapse ==
    /\ status = "ok"
    /\ req.pc = "idle"
    /\ now < MaxElapsed
    /\ now' = now + ElapseStep
    /\ UNCHANGED <<cacheVars, hVars, outsideH>>

NextHandler ==
    \/ StartHandler
    \/ \E r \in Requests : ServeDNS(r)
    \/ ConsultCache
    \/ ConsultLocal
    \/ Forward
    \/ \E o \in UpstreamOutcomes : Exchange(o)
    \/ \E timer \in BOOLEAN : Backoff(timer)
    \/ CtxTimeout
    \/ Elapse

SpecHandler == Init /\ [][NextHandler]_vars

-----------------------------------------------------------------------------
(* Claims about the handler (SpecHandler) *)

IsPrefix(s, t) == Len(s) <= Len(t) /\ SubSeq(t, 1, Len(s)) = s

Served == req.pc = "idle" /\ req.source # "none"

\* C9: a request consults the cache, then (only after a miss) the local
\* resolver, then (only after both missed) the upstream forwarder, each at
\* most once; a cache hit consults nothing else, a local hit not the
\* upstream; and the same question asked again after a local hit is
\* answered without the upstream: from the cache, with the same A record
\* (class IN, TTL 300) under the new id, while the entry has not expired.
C9_CacheThenLocalThenUpstream ==
    /\ IsPrefix(calls, <<"cache", "local", "upstream">>)
    /\ req.source = "cache" => calls = <<"cache">>
    /\ req.source = "local" => calls = <<"cache", "local">>
    /\ req.source \in {"upstream", "servfail"} =>
           calls = <<"cache", "local", "upstream">>
    /\ req.pc \in {"exchange", "backoff"} => calls = <<"cache", "local", "upstream">>
    /\ Served /\ req.prev.source = "local" /\ req.r.Question = <<req.prev.question>> =>
           /\ calls \in {<<"cache">>, <<"cache", "local">>}
           /\ req.at <= req.prev.at + 300 =>
                  /\ calls = <<"cache">>
                  /\ Len(written) = 1
                  /\ written[1].Id = req.r.Id
                  /\ Len(written[1].Answer) = 1
                  /\ written[1].Answer[1].Data = [A |-> IPv4(1)]
                  /\ written[1].Answer[1].Class = ClassINET
                  /\ written[1].Answer[1].Ttl = 300

\* The question a local record answered has been asked again, later and
\* under another id, and answered from the cache.
C9_Witness ==
    /\ Served
    /\ req.prev.source = "local"
    /\ req.r.Question = <<req.prev.question>>
    /\ req.at > req.prev.at
    /\ req.source = "cache"
    /\ written[1].Id = 2

\* The forwarder went through every server on every attempt, and each
\* exchange ended in an error or in an rcode other than NOERROR and NXDOMAIN.
AllExchangesFailed ==
    /\ Served
    /\ req.exchanges = (retries + 1) * NumServers
    /\ req.allBad

ServFailWritten ==
    written = <<[Skeleton(req.r) EXCEPT !.Rcode = RcodeServerFailure]>>

\* C10 as stated: when every exchange of every attempt has failed, the
\* handler writes the skeleton reply with rcode SERVFAIL and the cache holds
\* exactly the entries it held when the request arrived.
C10_FailureLeavesCacheAsItWas ==
    AllExchangesFailed =>
        /\ ServFailWritten
        /\ CacheContent(World) = before

\* C10, amended: when every exchange of every attempt has failed, the
\* handler writes the skeleton reply with rcode SERVFAIL, no entry has been
\* added to the cache and none changed; the one entry that may be gone is an
\* expired entry under the question's key, which the cache lookup removed.
C10_FailureAddsAndChangesNothing ==
    AllExchangesFailed =>
        /\ ServFailWritten
        /\ \A k \in DOMAIN items :
               k \in DOMAIN before /\ CacheContent(World)[k] = before[k]
        /\ \A k \in DOMAIN before :
               k \notin DOMAIN items =>
                   /\ k = GenerateCacheKey(req.r.Question[1])
                   /\ req.at > before[k].ExpiresAt

\* Every exchange failed for a question whose entry had expired in the
\* cache: the entry is gone.
C10_Witness ==
    /\ AllExchangesFailed
    /\ ServFailWritten
    /\ GenerateCacheKey(req.r.Question[1]) \in DOMAIN before
    /\ GenerateCacheKey(req.r.Question[1]) \notin DOMAIN items
    /\ Cardinality(DOMAIN items) >= 1

\* C11: the exchanges of a request run in attempt-then-server order; the
\* first reply whose rcode is NOERROR or NXDOMAIN is returned to the handler
\* and no server is asked after it; an exchange that ends in an error or in
\* any other rcode returns nothing and moves on to the next server (or the
\* next attempt, or the failure after the last).
C11_FirstUsableReplyReturned ==
    [][/\ req.pc = "exchange" =>
              req.exchanges = req.attempt * NumServers + (req.server - 1)
       /\ req'.exchanges # req.exchanges /\ req'.r = req.r /\ req.pc # "idle" =>
              /\ req.pc = "exchange" /\ req.allBad
              /\ req'.exchanges = req.exchanges + 1
              /\ IF req'.allBad
                 THEN /\ req'.source # "upstream"
                      /\ written' \in {written,
                                       <<[Skeleton(req.r) EXCEPT
                                             !.Rcode = RcodeServerFailure]>>}
                      /\ \/ req'.pc = "exchange" /\ req'.server = req.server + 1
                                                 /\ req'.attempt = req.attempt
                         \/ req'.pc = "backoff" /\ req.server = NumServers
                                                /\ req.attempt < retries
                         \/ req'.pc = "idle" /\ req.server = NumServers
                                             /\ req.attempt = retries
                 ELSE /\ req'.pc = "idle" /\ req'.source = "upstream"
                      /\ Len(written') = 1
                      /\ written'[1].Rcode \in {RcodeSuccess, RcodeNameError}
       /\ req'.source = "upstream" /\ req.source # "upstream" =>
              req'.exchanges = req.exchanges + 1 /\ ~req'.allBad]_vars

\* A name error came back from the second server asked and was returned.
C11_Witness ==
    /\ Served
    /\ req.source = "upstream"
    /\ req.exchanges >= 2
    /\ written[1].Rcode = RcodeNameError

-----------------------------------------------------------------------------
(* SpecTTL: extractTTL applied to messages whose answers carry any TTLs.    *)

\* TTLs of answer records: around the bounds extractTTL knows, a day, and
\* the largest TTL of RFC 2181 (2^31 - 1).  extractTTL only compares them.
AnswerTTLs == {0, 30, 59, 60, 61, 300, 3599, 3600, 3601, 7200, 86400, 2147483647}

TTLLists == {<<>>} \cup {<<a>> : a \in AnswerTTLs}
                   \cup {<<a, b>> : a \in AnswerTTLs, b \in AnswerTTLs}

\* A reply to SampleQuestion whose answers carry the TTLs of the list.
MsgWithTTLs(ttls) ==
    NewMsg(1, <<SampleQuestion>>, RcodeSuccess,
           [i \in DOMAIN ttls |-> RR(SampleQuestion.Name, TypeA, ttls[i],
                                     [A |-> IPv4(5)])])

\* h.extractTTL(msg) is called on a message.
ExtractTTL(ttls) ==
    /\ extracted' = [answers |-> ttls, ttl |-> extractTTL(MsgWithTTLs(ttls))]
    /\ UNCHANGED <<cacheVars, now, seqVars, concVars, snapVars, resVars, hVars, cfgVars,
                   srvVars, keyVars>>

NextTTL == \E ttls \in TTLLists : ExtractTTL(ttls)

SpecTTL == Init /\ [][NextTTL]_vars

\* C12: the TTL a response is cached with is 300 s when it has no answers,
\* and otherwise the minimum TTL of its answers raised to 60 s when below,
\* with no bound above.
C12_TTLIsMinimumRaisedTo60 ==
    extracted.ttl =
        IF extracted.answers = <<>> THEN 300
        ELSE LET m == MinOf({extracted.answers[i] : i \in DOMAIN extracted.answers})
             IN  IF m < 60 THEN 60 ELSE m

\* A request has arrived at the handler.
Arrived == req.pc # "idle" \/ req.source # "none"

\* The supported set, as far as the types of the model go.
SupportedTypes == {TypeA, TypeAAAA, TypeCNAME, TypeMX, TypeTXT, TypeSRV}

\* The request ended with the skeleton reply of the given rcode, and nothing
\* else happened.
Rejected(rcode) ==
    /\ req.pc = "idle"
    /\ written = <<[Id |-> req.r.Id, Response |-> TRUE, Authoritative |-> FALSE,
                    RecursionAvailable |-> TRUE, Rcode |-> rcode,
                    Question |-> req.r.Question, Answer |-> <<>>]>>
    /\ calls = <<>>
    /\ CacheContent(World) = before
    /\ status = "ok"

\* C13: a query with no question is answered FORMERR, a query whose first
\* question has an unsupported type NOTIMP; the reply is the skeleton (id and
\* question echoed, QR set, AA clear, RA set, no answers), and neither the
\* cache nor the local resolver nor the upstream forwarder is consulted.
C13_MalformedAndUnsupportedRejected ==
    Arrived =>
        /\ Len(req.r.Question) = 0 => Rejected(RcodeFormatError)
        /\ Len(req.r.Question) > 0 /\ req.r.Question[1].Qtype \notin SupportedTypes =>
               Rejected(RcodeNotImplemented)

\* A query of type MAILA was rejected, right after one without a question,
\* while the cache held an entry.
C13_Witness ==
    /\ req.pc = "idle"
    /\ req.source = "notimp"
    /\ req.r.Question[1].Qtype = TypeMAILA
    /\ req.prev.source = "formerr"
    /\ written[1].Rcode = RcodeNotImplemented
    /\ Cardinality(DOMAIN items) >= 1

\* The handler answered from the cache.
CacheHit == req.pc = "idle" /\ req.source = "cache"

\* C14: every reply carries the id of the query it answers; a reply replayed
\* from the cache equals the stored message in everything but the id, and
\* the replay leaves the stored entry (its message with the id it was stored
\* under, and its expiry) as it was.
C14_ReplyCarriesQueryId ==
    /\ \A i \in DOMAIN written : written[i].Id = req.r.Id
    /\ CacheHit =>
           \E k \in {GenerateCacheKey(req.r.Question[1])} :
               /\ k \in DOMAIN before
               /\ k \in DOMAIN items
               /\ Len(written) = 1
               /\ [written[1] EXCEPT !.Id = before[k].Response.Id] = before[k].Response
               /\ CacheContent(World)[k] = before[k]

\* A cache hit for a query whose id is not the one the entry was stored
\* under.
C14_Witness ==
    /\ CacheHit
    /\ written[1].Id # before[GenerateCacheKey(req.r.Question[1])].Response.Id
    /\ Len(written[1].Answer) = 1

-----------------------------------------------------------------------------
(* SpecHandlerFair: the handler with the scheduling it runs under.  A       *)
(* started ServeDNS goes on with its next statement; an exchange ends (the  *)
(* client has a timeout) and the backoff timer fires.  Clients may send     *)
(* any name, also one two labels under the wildcard *.c.  The server is     *)
(* followed through its first MaxRequests requests.                         *)

MaxRequests == 2

DeepQuestion == Question(<<"b", ".", "a", ".", "c", ".">>, TypeA, ClassINET)

FairRequests ==
    {[Id |-> 1, Question |-> qs] :
        qs \in {<<>>} \cup {<<q>> : q \in HandlerQuestions \cup {DeepQuestion}}}

\* The requests that have arrived so far, up to two.
RequestsArrived ==
    IF req.pc = "idle" /\ req.source = "none" THEN 0
    ELSE IF req.prev.source = "none" THEN 1
    ELSE 2

\* One of the first MaxRequests requests arrives.
Receive(r) ==
    /\ RequestsArrived < MaxRequests
    /\ ServeDNS(r)

NextHandlerFair ==
    \/ StartHandler
    \/ \E r \in FairRequests : Receive(r)
    \/ ConsultCache
    \/ ConsultLocal
    \/ Forward
    \/ \E o \in UpstreamOutcomes : Exchange(o)
    \/ \E timer \in BOOLEAN : Backoff(timer)
    \/ CtxTimeout

\* The next statement of a ServeDNS that has started.
HandlerStep ==
    \/ ConsultCache
    \/ ConsultLocal
    \/ Forward
    \/ \E o \in UpstreamOutcomes : Exchange(o)
    \/ Backoff(TRUE)

SpecHandlerFair == Init /\ [][NextHandlerFair]_vars /\ WF_vars(HandlerStep)

\* C15: every query the handler receives is, on every path, answered by one
\* attempt to write a reply, after which the handler returns: no return
\* without a write, and never a second write.
C15_EveryQueryGetsOneReply ==
    (req.pc # "idle") ~> (req.pc = "idle" /\ Len(written) = 1)

\* The request's deadline has fired while the forwarder has the question.
DeadlineFiredUpstream == req.ctxDone /\ req.pc \in {"exchange", "backoff"}

\* C16: once the deadline of a request has fired while the handler is in
\* upstream forwarding, the handler writes nothing for that request: nothing
\* to the cache and no reply.
C16_NothingWrittenAfterDeadline ==
    [][DeadlineFiredUpstream =>
           /\ written' = written
           /\ CacheContent(World)' = CacheContent(World)]_vars

-----------------------------------------------------------------------------
(* SpecConfig: the configuration file is loaded when the server starts.     *)

PortOptions == {Omitted, Opt(0), Opt(5353), Opt(65536)}
BindOptions == {Omitted, Opt("127.0.0.1")}
MaxEntriesOptions == {Omitted, Opt(500), Opt(-1)}
ServersOptions == {Omitted, Opt(<<>>), Opt(<<"9.9.9.9:53">>)}
RetriesOptions == {Omitted, Opt(0), Opt(2), Opt(-1)}

NoTables == ZeroConfig.Records

\* Records tables of the file: none, valid ones, and one for each way a
\* value can be wrong.
RecordsTables ==
    {NoTables,
     [NoTables EXCEPT !.A = (Host :> IPv4(1)) @@ (WildC :> IPv4(7)),
                      !.AAAA = (Host :> IPv6(2)),
                      !.CNAME = (Host :> <<"c">>),
                      !.MX = (Host :> [Priority |-> 0, Target |-> <<"b", ".">>])],
     [NoTables EXCEPT !.MX = (Host :> [Priority |-> 65535, Target |-> <<"c">>])],
     [NoTables EXCEPT !.A = (Host :> IPv6(2))],
     [NoTables EXCEPT !.AAAA = (Host :> IPv4(1))],
     [NoTables EXCEPT !.A = (Host :> NotIP)],
     [NoTables EXCEPT !.AAAA = (Host :> NotIP)],
     [NoTables EXCEPT !.A = (<<"a", ".", ".", "b">> :> IPv4(1))],
     [NoTables EXCEPT !.CNAME = (Host :> <<>>)],
     [NoTables EXCEPT !.CNAME = (Host :> <<"a", ".", ".", "b">>)],
     [NoTables EXCEPT !.MX = (Host :> [Priority |-> 10, Target |-> <<".", "c">>])],
     [NoTables EXCEPT !.MX = (Host :> [Priority |-> -1, Target |-> <<"c">>])],
     [NoTables EXCEPT !.MX = (Host :> [Priority |-> 65536, Target |-> <<"c">>])]}

ConfigFiles ==
    {[exists |-> e, decodable |-> d, port |-> p, bind_address |-> b,
      max_entries |-> m, servers |-> s, retries |-> r, records |-> t] :
        e \in {TRUE}, d \in {TRUE}, p \in PortOptions, b \in BindOptions,
        m \in MaxEntriesOptions, s \in ServersOptions, r \in RetriesOptions,
        t \in RecordsTables}
    \cup {[NotLoaded.file EXCEPT !.exists = TRUE],
          [NotLoaded.file EXCEPT !.exists = TRUE, !.decodable = TRUE]}

\* main: the loader reads the file, once.
LoadAtStartup(path) ==
    /\ ~load.done
    /\ load' = [done |-> TRUE, file |-> path,
                err |-> Load(path).err, config |-> Load(path).config]
    /\ UNCHANGED <<cacheVars, now, seqVars, concVars, snapVars, resVars, hVars, ttlVars,
                   srvVars, keyVars>>

\* The file is not there.
StartWithoutFile == LoadAtStartup(NotLoaded.file)

NextConfig ==
    \/ \E path \in ConfigFiles : LoadAtStartup(path)
    \/ StartWithoutFile

SpecConfig == Init /\ [][NextConfig]_vars

\* The file was there, was well-formed TOML, and has been loaded.
FileLoaded == load.done /\ load.file.exists /\ load.file.decodable

\* A value of the records tables that the configuration rules forbid.
ForbiddenRecord(t) ==
    \/ \E d \in DOMAIN t.A : t.A[d].form # "v4"
    \/ \E d \in DOMAIN t.AAAA : t.AAAA[d].form # "v6"
    \/ \E d \in DOMAIN t.CNAME :
           \/ t.CNAME[d] = <<>>
           \/ \E k \in 1..Len(t.CNAME[d]) :
                  t.CNAME[d][k] = "." /\ (k = 1 \/ t.CNAME[d][k - 1] = ".")
    \/ \E d \in DOMAIN t.MX :
           \/ t.MX[d].Target = <<>>
           \/ \E k \in 1..Len(t.MX[d].Target) :
                  t.MX[d].Target[k] = "." /\ (k = 1 \/ t.MX[d].Target[k - 1] = ".")
           \/ t.MX[d].Priority \notin 0..65535

\* C17: loading a configuration with an A value that is not an IPv4 address,
\* an AAAA value that is not an IPv6 address, a CNAME or MX target that is
\* not a valid domain name, or an MX priority outside 0..65535 fails.
C17_ForbiddenRecordsRejected ==
    FileLoaded /\ ForbiddenRecord(load.file.records) => load.err # ""

\* Every option of the file is left out or has a value in its range, and
\* the records are accepted.
OptionsInRange(path) ==
    /\ path.port = Omitted \/ path.port[1] \in 1..65535
    /\ path.max_entries = Omitted \/ path.max_entries[1] >= 1
    /\ path.servers = Omitted \/ Len(path.servers[1]) >= 1
    /\ path.retries = Omitted \/ path.retries[1] >= 0
    /\ validateRecords([Records |-> path.records])

\* C18: loading an existing, well-formed file succeeds; an option left out
\* gets its default (port 53, bind address 0.0.0.0, max_entries 10000,
\* servers 8.8.8.8:53 and 1.1.1.1:53, retries 3) and an option written with a
\* value in its range, retries = 0 included, keeps that value.
C18_OmittedDefaultedWrittenKept ==
    FileLoaded /\ OptionsInRange(load.file) =>
        /\ load.err = ""
        /\ load.config.Port = Decode(load.file.port, 53)
        /\ load.config.BindAddress = Decode(load.file.bind_address, "0.0.0.0")
        /\ load.config.MaxEntries = Decode(load.file.max_entries, 10000)
        /\ load.config.Servers = Decode(load.file.servers, <<"8.8.8.8:53", "1.1.1.1:53">>)
        /\ load.config.Retries = Decode(load.file.retries, 3)

\* The records of the resolver are such as the loader accepts.
RecordsValidated == records.loaded /\ validateRecords([Records |-> records])

\* C19: for every question and every table that passes validation, Resolve
\* returns, with an answer or a miss; also when the only wildcard is at a
\* shorter suffix than the first candidate, and when the wildcard's value
\* gives no record of the type asked for.
C19_ResolveReturns ==
    RecordsValidated => status = "ok" /\ reply.status = "ok"

\* C20: an exact record for the name wins over every wildcard; without one,
\* the wildcard candidates are tried from the longest suffix to the
\* shortest, and the first that is a key of the table of the question's
\* type supplies the answer (with *.a.c and *.c in the table, b.a.c gets the
\* value of *.a.c).
C20_ExactThenLongestWildcard ==
    asked.Qtype \in WildcardTypes =>
        \E table \in {TableOf(records, asked.Qtype)} :
        \E name \in {ToLower(TrimSuffix(asked.Name))} :
        \E parts \in {Split(name)} :
            /\ name \in DOMAIN table /\ WellFormed(asked.Qtype, table[name]) =>
                   /\ reply.status = "ok"
                   /\ reply.found
                   /\ reply.msg.Answer[1].Data =
                          LocalRR(records, name, [asked EXCEPT !.Name = name]).rr.Data
            /\ name \notin DOMAIN table =>
                   \A i \in 0..(Len(parts) - 1) :
                       /\ WildcardAt(parts, i) \in DOMAIN table
                       /\ WellFormed(asked.Qtype, table[WildcardAt(parts, i)])
                       /\ \A j \in 0..(i - 1) : WildcardAt(parts, j) \notin DOMAIN table
                       => /\ reply.status = "ok"
                          /\ reply.found
                          /\ Len(reply.msg.Answer) = 1
                          /\ reply.msg.Answer[1].Name = asked.Name
                          /\ reply.msg.Answer[1].Data =
                                 LocalRR(records, WildcardAt(parts, i),
                                         [asked EXCEPT !.Name = WildcardAt(parts, i)]).rr.Data

\* ---------------------------------------------------------------------------
\* The forwarder's rounds
\* ---------------------------------------------------------------------------

\* Resolve returned its final error (not the context's).
ResolveGaveUp ==
    req.pc = "idle" /\ req.source = "servfail" /\ req.err.kind = "failed to resolve"

\* The waits of the rounds before round `attempt`, in ms.
SleepsBefore(attempt) == [i \in 1..attempt |-> i * BackoffUnit]

\* The failure the most recent exchange recorded.
LastFailure ==
    IF req.last.err THEN ExchangeFailed(req.last.server) ELSE ErrorCode(req.last.rcode)

\* C21: without cancellation the forwarder runs at most retries+1 rounds, asks
\* the servers in configured order within a round, makes at most
\* (retries+1)*NumServers exchanges, sleeps (attempt+1) x 100 ms only between
\* two rounds, and after the last round returns an error that wraps the last
\* recorded failure.
C21_RoundsOrderBackoffLastError ==
    ~req.ctxDone =>
        /\ req.attempt \in 0..retries
        /\ req.exchanges <= (retries + 1) * NumServers
        /\ req.pc = "exchange" =>
               /\ req.exchanges = req.attempt * NumServers + req.server - 1
               /\ req.last.server = IF req.server > 1 THEN req.server - 1
                                    ELSE IF req.attempt > 0 THEN NumServers ELSE 0
               /\ req.slept = SleepsBefore(req.attempt)
        /\ req.pc = "backoff" =>
               /\ req.attempt < retries
               /\ req.exchanges = (req.attempt + 1) * NumServers
               /\ req.slept = SleepsBefore(req.attempt)
        /\ ResolveGaveUp =>
               /\ req.exchanges = (retries + 1) * NumServers
               /\ req.slept = SleepsBefore(retries)
               /\ req.last.server = NumServers
               /\ req.err.attempts = retries + 1
               /\ req.err.wraps = LastFailure

\* Every round failed, the last exchange with another failure than the one
\* before it.
C21_Witness ==
    /\ ~req.ctxDone
    /\ ResolveGaveUp
    /\ req.slept = <<BackoffUnit>>
    /\ req.last.err
    /\ req.err.wraps = ExchangeFailed(NumServers)

\* ---------------------------------------------------------------------------
\* Answers are cached before they are written
\* ---------------------------------------------------------------------------

\* The handler wrote an answer of the local resolver or of the forwarder.
Answered == Served /\ req.source \in {"local", "upstream"}

\* The request asks what the request before it asked, that one was answered by
\* the local resolver or the forwarder, and its computed TTL has not elapsed.
AskedAgainInTime ==
    /\ req.r.Question = <<req.prev.question>>
    /\ req.prev.source \in {"local", "upstream"}
    /\ req.at <= req.prev.at + req.prev.ttl

\* C22: when the handler has written an answer of the local resolver or of
\* the forwarder (an NXDOMAIN or an empty NOERROR among them, with 300 s), the
\* cache holds that response under the question's key with the computed TTL;
\* the same question asked again before the TTL has elapsed is a cache hit.
C22_AnswerCachedBeforeWritten ==
    /\ Answered =>
           /\ Len(written) = 1
           /\ Len(written[1].Answer) = 0 => extractTTL(written[1]) = 300
           /\ \E key \in {GenerateCacheKey(req.r.Question[1])} :
                  /\ key \in DOMAIN items
                  /\ CacheContent(World)[key] =
                         [Key |-> key, Response |-> written[1],
                          ExpiresAt |-> req.at + extractTTL(written[1])]
    /\ AskedAgainInTime /\ req.pc # "cache" =>
           /\ req.pc = "idle"
           /\ req.source = "cache"
           /\ calls = <<"cache">>

\* An upstream NXDOMAIN was cached and the question, asked again 200 s later,
\* was answered from the cache.
C22_Witness ==
    /\ AskedAgainInTime
    /\ req.prev.source = "upstream"
    /\ req.prev.ttl = 300
    /\ req.at = req.prev.at + ElapseStep
    /\ req.source = "cache"
    /\ written[1].Rcode = RcodeNameError

\* ---------------------------------------------------------------------------
\* One run of the sweeper
\* ---------------------------------------------------------------------------

\* The entry under key has not expired at the clock reading t.
LiveAt(key, t) == ~(CacheContent(World)[key].ExpiresAt < t)

\* C23: one sweeper run removes every entry whose expiry instant is before
\* the run's clock reading and no other entry; the entries that stay keep
\* their content and their order in the recency list.
C23_SweepRemovesExactlyExpired ==
    [][lastOp'.op = "sweep" =>
          /\ DOMAIN items' = {key \in DOMAIN items : LiveAt(key, now)}
          /\ ListKeys(World)' = SelectSeq(ListKeys(World), LAMBDA key : LiveAt(key, now))
          /\ \A key \in DOMAIN items' : CacheContent(World)'[key] = CacheContent(World)[key]
          /\ evictList'.len = Cardinality(DOMAIN items')]_vars

\* A run on a full cache removed the expired entry and left the other.
C23_Witness ==
    /\ lastOp.op = "sweep"
    /\ lastOp.removed = 1
    /\ Cardinality(DOMAIN items) = 1
    /\ lastOp.wasFull

-----------------------------------------------------------------------------
(* SpecServer: the goroutines of one server process from Start to the end   *)
(* of main: the listener and the drain goroutine of Server.Start, main in   *)
(* Server.Wait and Server.Stop, and the cache's sweeper goroutine.          *)

\* The process runs until main returns.
Running == status = "ok" /\ srv.main # "exit"

\* (mutant) Wait returns when the drain goroutine is done.
wgDrained(s) == s.drain = "done"

\* Server.Wait: s.wg.Wait() returns when both goroutines of Start are done.
wgWait(s) == s.listener = "done" /\ s.drain = "done"

\* Start's first goroutine: s.server.ListenAndServe() serves, or returns an
\* error at once (the address cannot be bound).
ListenAndServe(ok) ==
    /\ Running
    /\ srv.listener = "starting"
    /\ srv' = [srv EXCEPT !.listener = IF ok THEN "serving" ELSE "done"]
    /\ UNCHANGED <<cacheVars, now, snapVars, outsideSrv>>

\* Start, lines 105-110: waitForServer dials the UDP address, which needs no
\* listener to succeed; main goes on to Server.Wait.
StartReturns ==
    /\ Running
    /\ srv.main = "start"
    /\ srv' = [srv EXCEPT !.main = "wait"]
    /\ UNCHANGED <<cacheVars, now, snapVars, outsideSrv>>

\* main.go, lines 61-65: a signal arrives and cancel() is called.
Cancel ==
    /\ Running
    /\ ~srv.cancelled
    /\ srv' = [srv EXCEPT !.cancelled = TRUE]
    /\ UNCHANGED <<cacheVars, now, snapVars, outsideSrv>>

\* A handler of the serving listener stores a response.
Serve(key, m, ttl) ==
    /\ Running
    /\ srv.listener \in {"serving", "stopping"}
    /\ \E v \in {MsgNew(World, m)} :
       \E w \in {LRUSet(v.w, key, v.p, ttl, now)} :
       \E c \in {Collect(w, <<>>, <<>>)} :
           SetWorld(c.w)
    /\ UNCHANGED <<now, srv, snapVars, outsideSrv>>

\* Time passes.
ServerTick ==
    /\ Running
    /\ now < MaxTime
    /\ now' = now + 1
    /\ UNCHANGED <<cacheVars, srv, snapVars, outsideSrv>>

\* Start's second goroutine, lines 93-102: <-ctx.Done() has returned and
\* ShutdownContext is called; after the call ListenAndServe returns.
ShutdownContext ==
    /\ Running
    /\ srv.drain = "waiting"
    /\ srv.cancelled
    /\ srv' = [srv EXCEPT !.drain = "shutdown",
                          !.listener = IF @ = "done" THEN "done" ELSE "stopping"]
    /\ UNCHANGED <<cacheVars, now, snapVars, outsideSrv>>

\* ListenAndServe returns and the first goroutine calls wg.Done.
ListenerDone ==
    /\ Running
    /\ srv.listener = "stopping"
    /\ srv' = [srv EXCEPT !.listener = "done"]
    /\ UNCHANGED <<cacheVars, now, snapVars, outsideSrv>>

\* ShutdownContext returns (the server has stopped, or the 5 s are over) and
\* the second goroutine calls wg.Done.
DrainDone ==
    /\ Running
    /\ srv.drain = "shutdown"
    /\ srv' = [srv EXCEPT !.drain = "done"]
    /\ UNCHANGED <<cacheVars, now, snapVars, outsideSrv>>

\* Server.Wait, line 132: s.wg.Wait() returns and Stop is called.
WaitReturns ==
    /\ Running
    /\ srv.main = "wait"
    /\ wgWait(srv)
    /\ srv' = [srv EXCEPT !.main = "close"]
    /\ UNCHANGED <<cacheVars, now, snapVars, outsideSrv>>

\* Server.Stop, lines 116-119, and LRUCache.Close: close(c.stopCleanup).
Close ==
    /\ Running
    /\ srv.main = "close"
    /\ srv' = [srv EXCEPT !.main = "dump", !.stopCleanup = TRUE]
    /\ UNCHANGED <<cacheVars, now, snapVars, outsideSrv>>

\* Server.Stop, line 121: DumpToFile is called and asks for the read lock.
DumpCalled ==
    /\ Running
    /\ srv.main = "dump"
    /\ srv' = [srv EXCEPT !.main = "dumping", !.dumps = @ + 1]
    /\ UNCHANGED <<cacheVars, now, snapVars, outsideSrv>>

\* LRUCache.DumpToFile under the read lock; Stop, Wait and main return.
DumpDone ==
    /\ Running
    /\ srv.main = "dumping"
    /\ \E order \in MapOrders(DOMAIN items) : file' = DumpToFile(World, order, now)
    /\ snap' = LiveEntries(World, now)
    /\ srv' = [srv EXCEPT !.main = "exit"]
    /\ UNCHANGED <<cacheVars, now, outsideSrv>>

\* time.NewTicker: the interval is over and a tick waits in ticker.C.
TickerFires ==
    /\ Running
    /\ srv.sweeper # "exited"
    /\ ~srv.tick
    /\ srv' = [srv EXCEPT !.tick = TRUE]
    /\ UNCHANGED <<cacheVars, now, snapVars, outsideSrv>>

\* cleanupExpired, line 290: the select takes the tick (also when
\* stopCleanup is closed as well: select picks among the ready cases).
SelectTick ==
    /\ Running
    /\ srv.sweeper = "select"
    /\ srv.tick
    /\ srv' = [srv EXCEPT !.sweeper = "run", !.tick = FALSE]
    /\ UNCHANGED <<cacheVars, now, snapVars, outsideSrv>>

\* cleanupExpired, line 292: the select takes the closed stopCleanup and the
\* goroutine returns.
SelectStop ==
    /\ Running
    /\ srv.sweeper = "select"
    /\ srv.stopCleanup
    /\ srv' = [srv EXCEPT !.sweeper = "exited"]
    /\ UNCHANGED <<cacheVars, now, snapVars, outsideSrv>>

\* cleanupExpired, line 291: c.removeExpired() under the lock, then back to
\* the select.
RunSweep ==
    /\ Running
    /\ srv.sweeper = "run"
    /\ \E w \in {removeExpired(World, now)} :
       \E c \in {Collect(w, <<>>, <<>>)} :
           SetWorld(c.w)
    /\ srv' = [srv EXCEPT !.sweeper = "select"]
    /\ UNCHANGED <<now, snapVars, outsideSrv>>

NextServer ==
    \/ \E ok \in BOOLEAN : ListenAndServe(ok)
    \/ StartReturns
    \/ Cancel
    \/ \E key \in CallerKeys, m \in SampleMsgs, ttl \in GoTTLs : Serve(key, m, ttl)
    \/ ServerTick
    \/ ShutdownContext
    \/ ListenerDone
    \/ DrainDone
    \/ WaitReturns
    \/ Close
    \/ DumpCalled
    \/ DumpDone
    \/ TickerFires
    \/ SelectTick
    \/ SelectStop
    \/ RunSweep

\* What the Go scheduler guarantees: a goroutine that can run does run.
Shutdown ==
    \/ StartReturns
    \/ ShutdownContext
    \/ ListenerDone
    \/ DrainDone
    \/ WaitReturns
    \/ Close
    \/ DumpCalled
    \/ DumpDone

SpecServer == Init /\ [][NextServer]_vars /\ WF_vars(Shutdown)

-----------------------------------------------------------------------------
(* Claims about shutdown (SpecServer) *)

\* C24: at shutdown the sweeper has terminated before the snapshot starts:
\* once DumpToFile has been called from Stop the sweeper goroutine has
\* returned, so no sweeper run begins or is in progress.
C24_SweeperJoinedBeforeSnapshot ==
    srv.dumps > 0 => srv.sweeper = "exited"

-----------------------------------------------------------------------------
(* SpecRestore: LoadFromFile called on a cache in use, and at startup, with *)
(* the file dns-cache.gob absent, undecodable, or holding any snapshot.     *)

\* A response gob can encode (it has no answer records).
StoredNX == NewMsg(1, <<SampleQuestion>>, RcodeNameError, <<>>)

SnapshotEntry(key, expiresAt) ==
    [Key |-> key, Response |-> StoredNX, ExpiresAt |-> expiresAt]

\* What dns-cache.gob can hold when LoadFromFile opens it: bytes that do not
\* decode, and snapshots of some cache (of this or a larger capacity) with
\* entries live or expired.
SnapshotFiles ==
    {[exists |-> TRUE, decodable |-> FALSE, entries |-> <<>>]} \cup
    {[exists |-> TRUE, decodable |-> TRUE, entries |-> es] :
        es \in {<<>>,
                <<SnapshotEntry("k1", MaxTime + 1)>>,
                <<SnapshotEntry("k1", 1), SnapshotEntry("k2", MaxTime + 1)>>,
                <<SnapshotEntry("k1", MaxTime + 1), SnapshotEntry("k2", MaxTime + 1),
                  SnapshotEntry("k3", MaxTime + 1)>>}}

\* The file is written by an earlier process.
WriteFile(f) ==
    /\ status = "ok"
    /\ file # f
    /\ file' = f
    /\ snap' = EmptyFn
    /\ lastOp' = OpOn("write", "")
    /\ UNCHANGED <<cacheVars, now, held, stored, deadline, recent, outsideSnap>>

\* The file is removed.
RemoveFile ==
    /\ status = "ok"
    /\ file.exists
    /\ file' = NoFile
    /\ snap' = EmptyFn
    /\ lastOp' = OpOn("remove", "")
    /\ UNCHANGED <<cacheVars, now, held, stored, deadline, recent, outsideSnap>>

\* Cache.LoadFromFile on the cache as it is.
Restore ==
    /\ status = "ok"
    /\ \E r \in {LoadFromFile(World, file, now)} :
       \E c \in {Collect(r.w, <<>>, <<>>)} :
           /\ SetWorld(c.w)
           /\ stored' = [k \in DOMAIN c.w.items |->
                            c.w.heap[c.w.entries[c.w.items[k]].Response]]
           /\ deadline' = [k \in DOMAIN c.w.items |->
                              c.w.entries[c.w.items[k]].ExpiresAt]
           /\ recent' = ListKeys(c.w)
           /\ lastOp' = [OpOn("restore", "") EXCEPT
                            !.found = ~r.err, !.size = LRUSize(World)]
    /\ held' = NilPtr
    /\ UNCHANGED <<now, file, snap, outsideSnap>>

NextRestore ==
    \/ \E key \in CallerKeys, m \in SampleMsgs, ttl \in GoTTLs : DoSet(key, m, ttl, FALSE)
    \/ Tick
    \/ \E f \in SnapshotFiles : WriteFile(f)
    \/ RemoveFile
    \/ Restore
    \/ Restart

SpecRestore == Init /\ [][NextRestore]_vars

-----------------------------------------------------------------------------
(* Claims about restore (SpecRestore) *)

\* The file LoadFromFile is about to open is absent or does not decode.
Unreadable == ~file.exists \/ ~file.decodable

\* C26: a restore fails exactly when the snapshot file is absent or cannot
\* be decoded, and then leaves map, recency list and size as they were; at
\* startup the failure leaves the server running with an empty cache.
C26_FailedRestoreChangesNothing ==
    [][/\ lastOp'.op \in {"restore", "restart"} => (lastOp'.found <=> ~Unreadable)
       /\ lastOp'.op = "restore" /\ ~lastOp'.found =>
              /\ items' = items
              /\ ListKeys(World)' = ListKeys(World)
              /\ CacheContent(World)' = CacheContent(World)
              /\ evictList'.len = evictList.len
              /\ LRUSize(World)' = LRUSize(World)
              /\ status' = "ok"
       /\ lastOp'.op = "restart" /\ ~lastOp'.found =>
              /\ items' = EmptyFn
              /\ evictList'.len = 0
              /\ status' = "ok"]_vars

\* A restore failed on a cache that held two entries.
C26_Witness ==
    /\ lastOp.op = "restore"
    /\ ~lastOp.found
    /\ lastOp.size = 2
    /\ LRUSize(World) = 2
    /\ file.exists

\* C27: after a restore the recency list is as long as the map is large,
\* and at most capacity long, whatever the snapshot and the cache before.
C27_RestoreKeepsListAndMap ==
    lastOp.op = "restore" /\ lastOp.found =>
        /\ ListLen(World) = LRUSize(World)
        /\ ListLen(World) <= capacity
        /\ SeqSet(ListElems(World)) = Range(items)

-----------------------------------------------------------------------------
(* Claims about get and a concurrent set (SpecGoroutines) *)

\* Goroutine t's Get runs its removal step, after it found the entry of its
\* key expired.
GetRemoves(t) == gets[t].pc = "delete" /\ gets'[t].pc = "idle"

\* C28: a get never removes an entry that is not expired: when the key of a
\* get that saw an expired entry holds an entry that has not expired by the
\* time the removal step runs (a concurrent set refreshed it), the entry is
\* still in the cache after the step.
C28_GetRemovesOnlyExpired ==
    [][\A t \in Goroutines :
           /\ GetRemoves(t)
           /\ gets[t].key \in DOMAIN items
           /\ ~Expired(World, items[gets[t].key], now)
           => gets[t].key \in DOMAIN items']_vars

-----------------------------------------------------------------------------
(* SpecKey: the cache keys of the first questions of two requests the       *)
(* handler accepts.                                                         *)

\* Question classes: IN, CH, ANY, and three the mnemonic table does not hold.
QuestionClasses == {ClassINET, 3, 255, 5, 6, 65535}

KeyQuestions ==
    {Question(name, qtype, qclass) :
        name \in {<<"a", ".">>, <<"b", ".">>},
        qtype \in {TypeA, TypeMX, TypeMAILA},
        qclass \in QuestionClasses}

\* ServeDNS, lines 47-60: both questions pass isSupportedType (the class is
\* not looked at) and get their cache keys.
CacheKeys(first, second) ==
    /\ isSupportedType(first.Qtype)
    /\ isSupportedType(second.Qtype)
    /\ keyed' = [first |-> first, second |-> second,
                 keys |-> <<GenerateCacheKey(first), GenerateCacheKey(second)>>]
    /\ UNCHANGED <<cacheVars, now, seqVars, concVars, snapVars, resVars, hVars, ttlVars,
                   cfgVars, srvVars>>

NextKey == \E first \in KeyQuestions, second \in KeyQuestions : CacheKeys(first, second)

SpecKey == Init /\ [][NextKey]_vars

\* C29: the cache key is injective on the questions the handler accepts:
\* two questions that differ in name, type or class (any 16-bit value) have
\* different cache keys.
C29_CacheKeyInjective ==
    keyed.keys # <<>> /\ keyed.first # keyed.second => keyed.keys[1] # keyed.keys[2]

====
